---- MODULE Spec2Model ----
(***************************************************************************)
(* A model of the ClaudeSync VS Code extension: the reconciliation pass    *)
(* of SyncManager.syncFiles (src/src/syncManager.ts), the retry/cooldown   *)
(* supervisor syncFiles of src/src/extension.ts, the ignore-rule matcher   *)
(* of GitignoreManager (src/unnamed/part_003), the content fingerprint of  *)
(* src/src/utils.ts and the remote document store behind ClaudeClient.     *)
(*                                                                         *)
(* A path is the sequence of its segments (<<"d","a">> is d/a), a file's   *)
(* content a sequence of bytes, a string a sequence of UTF-16 code units.  *)
(***************************************************************************)
EXTENDS Integers, Sequences, FiniteSets, TLC

\* ---------------------------------------------------------------- bounds
MaxFileSize == 2
MaxFaults == 1
MaxRequests == 2

\* ------------------------------------------------------ program constants
maxRetries == 20
SYNC_COOLDOWN_MS == 3000
BackoffMs == 3000
SuccessDelayMs == 500
SampleBytes == 1024

Procs == {1, 2}

PathA == <<"a">>
PathDA == <<"d", "a">>
PathB == <<"b">>
Paths == {PathA, PathDA, PathB}

\* Local file contents (bytes): "A", the two-byte UTF-8 form of U+0141,
\* a NUL byte, and a three-byte text.
BytesA == <<65>>
BytesL == <<197, 129>>
BytesNul == <<0>>
BytesBig == <<65, 66, 65>>
LocalContents == {BytesA, BytesL, BytesNul, BytesBig}

\* Remote contents (strings): "A" and "B".
RemoteContents == {<<65>>, <<66>>}

NoResult == [success |-> FALSE, message |-> "none", hasData |-> FALSE,
             syncedFiles |-> 0, skippedFiles |-> 0, deletedFiles |-> 0,
             totalFiles |-> 0, error |-> "none"]

\* ------------------------------------------------------------ utilities
Range(s) == {s[i] : i \in 1..Len(s)}

RECURSIVE SeqFilterIdx(_, _, _)
\* The subsequence of s at the indices in keep, in order.
SeqFilterIdx(s, keep, i) ==
  IF i > Len(s) THEN <<>>
  ELSE (IF i \in keep THEN <<s[i]>> ELSE <<>>) \o SeqFilterIdx(s, keep, i + 1)

IsPrefix(p, s) == Len(p) <= Len(s) /\ \A i \in 1..Len(p) : p[i] = s[i]

\* ----------------------------------------------------- src/src/utils.ts
\* str2ab stores each UTF-16 code unit in a Uint8Array slot, which keeps
\* its low eight bits.
str2ab(str) == [i \in 1..Len(str) |-> str[i] % 256]

\* crypto.subtle.digest('SHA-256', .) taken as collision free: the digest
\* of a byte sequence stands for that byte sequence.
SHA256(bytes) == bytes

computeSHA256Hash(content) == SHA256(str2ab(content))

\* --------------------------------------- TextDecoder().decode (UTF-8)
RECURSIVE TextDecode(_)
TextDecode(b) ==
  IF Len(b) = 0 THEN <<>>
  ELSE IF b[1] < 128 THEN <<b[1]>> \o TextDecode(Tail(b))
  ELSE IF b[1] >= 194 /\ b[1] < 224 /\ Len(b) >= 2 /\ b[2] >= 128 /\ b[2] < 192
       THEN <<(b[1] - 192) * 64 + (b[2] - 128)>> \o TextDecode(Tail(Tail(b)))
  ELSE <<65533>> \o TextDecode(Tail(b))

\* ------------------------------- SyncManager.isBinaryContent (1KB sample)
Min(a, b) == IF a < b THEN a ELSE b

isBinaryContent(content) ==
  LET sampleSize == Min(Len(content), SampleBytes)
      nullCount == Cardinality({i \in 1..sampleSize : content[i] = 0})
      nonPrintableCount ==
        Cardinality({i \in 1..sampleSize :
                       \/ (content[i] < 32 /\ content[i] \notin {9, 10, 13})
                       \/ content[i] = 127})
  IN \/ nullCount > 0
     \/ (sampleSize > 0 /\ nonPrintableCount * 10 > 3 * sampleSize)

\* ------------------------------------------- GitignoreManager (part_003)
\* isMatch on normalized patterns without wildcard characters: a pattern
\* is the sequence of its segments.
isMatch(pattern, filePath, isDirectory) ==
  IF Len(pattern) = 1
  THEN IF isDirectory
       THEN \E i \in 1..Len(filePath) : filePath[i] = pattern[1]
       ELSE Len(filePath) > 0 /\ filePath[Len(filePath)] = pattern[1]
  ELSE IF isDirectory THEN IsPrefix(pattern, filePath)
       ELSE pattern = filePath

\* A faulty variant: a '!' rule that matches does not override.
shouldIgnoreAnyPositive(patterns, filePath, k, acc) ==
  \E n \in k..Len(patterns) :
    /\ ~patterns[n].neg
    /\ isMatch(patterns[n].pattern, filePath, patterns[n].isDirectory)

RECURSIVE shouldIgnoreFrom(_, _, _, _)
\* The loop of shouldIgnore: rules in order, each match overwrites.
shouldIgnoreFrom(patterns, filePath, k, acc) ==
  IF k > Len(patterns) THEN acc
  ELSE LET r == patterns[k]
           hit == isMatch(r.pattern, filePath, r.isDirectory)
       IN shouldIgnoreFrom(patterns, filePath, k + 1,
            IF r.neg THEN (IF hit THEN FALSE ELSE acc)
            ELSE (IF hit THEN TRUE ELSE acc))

shouldIgnore(patterns, filePath) == shouldIgnoreFrom(patterns, filePath, 1, FALSE)

\* loadGitignore: a line's isDirectory flag is "no dot in the pattern"
\* (the trailing slash is gone after normalizePath).
loadGitignore(lines) ==
  [k \in 1..Len(lines) |->
     [neg |-> lines[k].neg, pattern |-> lines[k].pattern,
      isDirectory |-> ~lines[k].hasDot]]


\* ------------------------------------------------------------------ state
VARIABLES
  files,              \* the candidate list the sync requests are made with
  localFs,            \* workspace files: path -> bytes
  gitignoreFile,      \* the lines of the root .gitignore
  gitRepo,            \* the workspace folder holds a .git directory
  matchAnswer,        \* the last call of GitignoreManager.isMatch and its result
  remote,             \* the project's documents, in listing order
  remoteAcct,         \* whether the configured organization / project exist
  remoteMode,         \* how remote calls fail: "budget", "flaky" or "auth"
  faultsLeft,         \* transient failures still to come in "budget" mode
  stored,             \* the persisted configuration (settings + claudesync.json)
  cachedConfig,       \* ConfigManager.cachedConfig
  smConfig,           \* SyncManager.config
  smOrg,              \* SyncManager.currentOrg is set
  smProject,          \* SyncManager.currentProject is set
  smPatterns,         \* GitignoreManager.patterns
  now,                \* Date.now()
  lastFailedSyncTime, \* extension.ts: lastFailedSyncTime
  reqLeft,            \* sync requests each requester may still make
  sup,                \* per requester: the run of extension.ts syncFiles
  pass,               \* per requester: the call of SyncManager.syncFiles
  prev,               \* the last pass that returned, and the time the last
                      \* run ended without success, 0 if none (history)
  auto,               \* extension.ts: the auto-sync timer and the handlers of
                      \* watcher events that are under way
  cfgOps,             \* ConfigManager: the getConfig and save calls under way
  ignoreAnswer,       \* the latest call of GitignoreManager.shouldIgnore
  binaryAnswer        \* the latest call of SyncManager.isBinaryContent

vars == <<files, localFs, gitignoreFile, remote, remoteAcct, remoteMode,
          faultsLeft, stored, cachedConfig, smConfig, smOrg, smProject,
          smPatterns, now, lastFailedSyncTime, reqLeft, sup, pass, prev,
          auto, cfgOps, ignoreAnswer, binaryAnswer, gitRepo, matchAnswer>>

\* What neither the supervisor nor a pass writes.
envVars == <<files, localFs, gitignoreFile, remoteAcct, remoteMode, auto,
             cfgOps, ignoreAnswer, binaryAnswer, gitRepo, matchAnswer>>

NoConfig == [loaded |-> FALSE]

IdlePass == [pc |-> "idle", fileContents |-> <<>>, existingFiles |-> <<>>,
             i |-> 1, target |-> 0, skipped |-> 0, synced |-> 0, deleted |-> 0,
             cancelled |-> FALSE, filesToDelete |-> <<>>, j |-> 1,
             cleanupFailed |-> FALSE, binaryFiles |-> {},
             startConfig |-> NoConfig, log |-> <<>>, result |-> NoResult,
             cancelAt |-> 0, cancelPc |-> "none", cancelLog |-> 0,
             persisted |-> NoConfig]

IdleSup == [pc |-> "idle", attempt |-> 0, success |-> FALSE,
            lastResult |-> NoResult, invocations |-> 0, sleeps |-> 0,
            creates |-> 0, ui |-> <<>>, namesBefore |-> {}]

NoPrev == [valid |-> FALSE, result |-> NoResult, cancelled |-> FALSE,
           cleanupFailed |-> FALSE, binaryFiles |-> {}, uniqueNames |-> TRUE,
           log |-> <<>>, failedAt |-> 0]

\* No timer was set, no watcher event is being handled. calls lists the
\* files the timer callbacks have called syncFiles with; burst says that
\* every change event so far arrived before any timer fired (history).
IdleAuto == [autoSyncTimer |-> 0, pending |-> {}, handlers |-> {},
             events |-> 0, calls |-> <<>>, burst |-> TRUE,
             refresh |-> "idle", refreshes |-> 0,
             startupSyncs |-> 0, changed |-> {},
             fileWatcher |-> 0, watchers |-> {}, setups |-> {},
             setupCalls |-> 0]

\* shouldIgnore has not been called. An answer is kept with the path and
\* the rules it was given for.
NoAnswer == [asked |-> FALSE, filePath |-> <<>>, patterns |-> <<>>,
             result |-> FALSE]

\* isMatch has not been called.
NoMatch == [asked |-> FALSE, pattern |-> <<>>, filePath |-> <<>>,
            isDirectory |-> FALSE, result |-> FALSE]

\* isBinaryContent has not been called.
NoClassification == [asked |-> FALSE, content |-> <<>>, result |-> FALSE]

\* No getConfig and no save is under way. writes counts the writes to the
\* store so far; last is what the latest getConfig call returned, with the
\* stored values at that moment, and whether the call started after a
\* save had written and ended, with no write since.
NoReturn == [checked |-> FALSE, value |-> NoConfig, expected |-> NoConfig]

IdleCfg == [reads |-> {}, save |-> [pc |-> "idle"], gets |-> 0, saves |-> 0,
            writes |-> 0, last |-> NoReturn, saved |-> "none"]

\* ConfigManager.getConfig: the cached snapshot when there is one, else
\* the stored values, which become the cache.
getConfig == IF cachedConfig.loaded THEN cachedConfig
             ELSE [stored EXCEPT !.loaded = TRUE]

\* SyncManager.isProjectInitialized: .vscode/claudesync.json exists.
isProjectInitialized == stored.fileExists

\* ------------------------------------------------------- the remote store
\* The outcomes a remote call may have. ClaudeClient.makeRequest throws a
\* plain Error for 403, for 429 and for every other status >= 400.
Outcomes ==
  IF remoteMode = "auth" THEN {"auth"}
  ELSE IF remoteMode = "flaky" THEN {"ok", "transient"}
  ELSE {"ok"} \cup (IF faultsLeft > 0 THEN {"transient"} ELSE {})

FaultsAfter(o) ==
  IF remoteMode = "budget" /\ o = "transient" THEN faultsLeft - 1 ELSE faultsLeft

UsedUuids ==
  {remote[k].uuid : k \in 1..Len(remote)} \cup
  UNION {{pass[q].existingFiles[k].uuid : k \in 1..Len(pass[q].existingFiles)} :
           q \in Procs}

\* A uuid the store has not handed out among the documents anyone still
\* refers to.
FreshUuid == CHOOSE n \in 1..(Cardinality(UsedUuids) + 1) : n \notin UsedUuids

HasDoc(uuid) == \E k \in 1..Len(remote) : remote[k].uuid = uuid

RemoveDoc(uuid) ==
  SeqFilterIdx(remote, {k \in 1..Len(remote) : remote[k].uuid # uuid}, 1)

\* ------------------------------------------------ SyncManager.prepareFiles
isExcluded(cfg, patterns, relativePath) ==
  \/ \E pattern \in cfg.excludePatterns : isMatch(pattern, relativePath, TRUE)
  \/ shouldIgnore(patterns, relativePath)

\* A faulty variant: a file of exactly maxFileSize bytes is too large.
atLeastMaxFileSize(content, cfg) == Len(content) >= cfg.maxFileSize

\* content.byteLength > this.config.maxFileSize
overMaxFileSize(content, cfg) == Len(content) > cfg.maxFileSize

RECURSIVE prepareFrom(_, _, _, _)
\* The loop of prepareFiles from candidate k on: the FileContent list.
prepareFrom(cands, cfg, patterns, k) ==
  IF k > Len(cands) THEN <<>>
  ELSE LET relativePath == cands[k]
           content == localFs[relativePath]
           keep == /\ ~isExcluded(cfg, patterns, relativePath)
                   /\ ~overMaxFileSize(content, cfg)
                   /\ ~isBinaryContent(content)
       IN (IF keep
           THEN <<[path |-> relativePath, content |-> TextDecode(content),
                   size |-> Len(content)]>>
           ELSE <<>>) \o prepareFrom(cands, cfg, patterns, k + 1)

prepareFiles(cands, cfg, patterns) == prepareFrom(cands, cfg, patterns, 1)

\* The candidates prepareFiles records as binary.
binaryFilesOf(cands, cfg, patterns) ==
  {cands[k] : k \in {n \in 1..Len(cands) :
      /\ ~isExcluded(cfg, patterns, cands[n])
      /\ ~overMaxFileSize(localFs[cands[n]], cfg)
      /\ isBinaryContent(localFs[cands[n]])}}

\* A faulty variant: the lookup never finds the file's document.
findExistingNever(existingFiles, path) == 0

\* existingFiles.find((f) => f.file_name === file.path): 0 when none.
findExisting(existingFiles, path) ==
  LET hits == {k \in 1..Len(existingFiles) : existingFiles[k].file_name = path}
  IN IF hits = {} THEN 0 ELSE CHOOSE k \in hits : \A m \in hits : k <= m

\* A faulty variant: cleanup takes every document of the listing.
filesToDeleteAll(existingFiles, fileContents) == existingFiles

\* existingFiles.filter((f) => !localFilePaths.has(f.file_name))
filesToDeleteOf(existingFiles, fileContents) ==
  LET localFilePaths == {fileContents[k].path : k \in 1..Len(fileContents)}
  IN SeqFilterIdx(existingFiles,
       {k \in 1..Len(existingFiles) :
          existingFiles[k].file_name \notin localFilePaths}, 1)

\* ------------------------------------------------------------ results
NotInitializedMessage ==
  "Project not initialized. Please run 'Initialize Project' first"

Failure(msg) == [NoResult EXCEPT !.message = msg]

\* A faulty variant: the failure result does not carry the error.
CaughtWithoutError(err) == [NoResult EXCEPT !.message = "Failed to sync files"]

\* handleError's catch: the thrown error becomes a failure result.
Caught(err) == [NoResult EXCEPT !.message = "Failed to sync files", !.error = err]

\* A faulty variant: the two counters are reported in each other's place.
SuccessResultSwapped(pr) ==
  [success |-> TRUE, message |-> "Successfully synced", hasData |-> TRUE,
   syncedFiles |-> pr.skipped, skippedFiles |-> pr.synced,
   deletedFiles |-> pr.deleted, totalFiles |-> Len(pr.fileContents),
   error |-> "none"]

SuccessResult(pr) ==
  [success |-> TRUE, message |-> "Successfully synced", hasData |-> TRUE,
   syncedFiles |-> pr.synced, skippedFiles |-> pr.skipped,
   deletedFiles |-> pr.deleted, totalFiles |-> Len(pr.fileContents),
   error |-> "none"]

Call(op, name, uuid, o) == [op |-> op, name |-> name, uuid |-> uuid, outcome |-> o]

\* The pass record once syncFiles returns res.
Returned(pr, res) == [pr EXCEPT !.pc = "ret", !.result = res]

\* No two documents of a listing have the same file_name.
UniqueNames(listing) ==
  \A k, m \in 1..Len(listing) :
    listing[k].file_name = listing[m].file_name => k = m

Summary(pr) == [valid |-> TRUE, result |-> pr.result, cancelled |-> pr.cancelled,
                cleanupFailed |-> pr.cleanupFailed,
                binaryFiles |-> pr.binaryFiles,
                uniqueNames |-> UniqueNames(pr.existingFiles), log |-> pr.log,
                failedAt |-> prev.failedAt]

SetPass(p, pr) ==
  /\ pass' = [pass EXCEPT ![p] = pr]
  /\ UNCHANGED prev


\* ------------------------------------------- SyncManager.syncFiles (a pass)
\* Entry of syncFiles up to its first remote call: ensureProjectAndOrg
\* returns at once when organization and project are loaded, fails when the
\* configuration holds no ids, and otherwise asks for the organizations.
PassStart(p) ==
  /\ pass[p].pc = "start"
  /\ LET config == getConfig
     IN IF smOrg /\ smProject
        THEN /\ SetPass(p, [pass[p] EXCEPT !.pc = "prepare"])
             /\ UNCHANGED cachedConfig
        ELSE /\ cachedConfig' = config
             /\ IF ~config.hasIds
                THEN SetPass(p, Returned(pass[p],
                       Failure(NotInitializedMessage)))
                ELSE SetPass(p, [pass[p] EXCEPT !.pc = "orgs"])
  /\ UNCHANGED <<envVars, remote, faultsLeft, stored, smConfig, smOrg,
                 smProject, smPatterns, now, lastFailedSyncTime, reqLeft, sup>>

\* claudeClient.getOrganizations() and the lookup of the configured one.
GetOrganizations(p) ==
  /\ pass[p].pc = "orgs"
  /\ \E o \in Outcomes :
       LET pr == [pass[p] EXCEPT !.log = Append(@, Call("orgs", <<>>, 0, o))]
       IN /\ faultsLeft' = FaultsAfter(o)
          /\ IF o # "ok"
             THEN /\ SetPass(p, Returned(pr, Caught(o)))
                  /\ UNCHANGED smOrg
             ELSE /\ smOrg' = remoteAcct.org
                  /\ IF remoteAcct.org
                     THEN SetPass(p, [pr EXCEPT !.pc = "projects"])
                     ELSE SetPass(p, Returned(pr, Failure("Organization not found")))
  /\ UNCHANGED <<envVars, remote, stored, cachedConfig, smConfig, smProject,
                 smPatterns, now, lastFailedSyncTime, reqLeft, sup>>

\* claudeClient.getProjects() and the lookup of the configured project.
GetProjects(p) ==
  /\ pass[p].pc = "projects"
  /\ \E o \in Outcomes :
       LET pr == [pass[p] EXCEPT !.log = Append(@, Call("projects", <<>>, 0, o))]
       IN /\ faultsLeft' = FaultsAfter(o)
          /\ IF o # "ok"
             THEN /\ SetPass(p, Returned(pr, Caught(o)))
                  /\ UNCHANGED smProject
             ELSE /\ smProject' = remoteAcct.proj
                  /\ IF remoteAcct.proj
                     THEN SetPass(p, [pr EXCEPT !.pc = "prepare"])
                     ELSE SetPass(p, Returned(pr, Failure("Project not found")))
  /\ UNCHANGED <<envVars, remote, stored, cachedConfig, smConfig, smOrg,
                 smPatterns, now, lastFailedSyncTime, reqLeft, sup>>

\* The configuration prepareFiles persists when it found binary files:
\* SyncManager's own exclude patterns plus the binary paths.
ConfigAfterBinary(binaryFiles) ==
  [stored EXCEPT !.excludePatterns = smConfig.excludePatterns \cup binaryFiles,
                 !.fileExists = TRUE]

\* loadGitignore and prepareFiles: filter the candidates, persist the
\* binary paths as exclude patterns and reload this.config; an empty
\* eligible list ends the pass.
Prepare(p) ==
  /\ pass[p].pc = "prepare"
  /\ LET patterns == loadGitignore(gitignoreFile)
         fileContents == prepareFiles(files, smConfig, patterns)
         binaryFiles == binaryFilesOf(files, smConfig, patterns)
         pr == [pass[p] EXCEPT !.fileContents = fileContents,
                               !.binaryFiles = binaryFiles,
                               !.startConfig = smConfig]
     IN /\ smPatterns' = patterns
        /\ IF binaryFiles # {}
           THEN /\ stored' = ConfigAfterBinary(binaryFiles)
                /\ cachedConfig' = ConfigAfterBinary(binaryFiles)
                /\ smConfig' = ConfigAfterBinary(binaryFiles)
           ELSE UNCHANGED <<stored, cachedConfig, smConfig>>
        /\ IF Len(fileContents) = 0
           THEN SetPass(p, Returned(pr, Failure("No valid files to sync")))
           ELSE SetPass(p, [pr EXCEPT !.pc = "list"])
  /\ UNCHANGED <<envVars, remote, faultsLeft, smOrg, smProject, now,
                 lastFailedSyncTime, reqLeft, sup>>

\* claudeClient.listFiles(): the snapshot the pass diffs against.
ListFiles(p) ==
  /\ pass[p].pc = "list"
  /\ \E o \in Outcomes :
       LET pr == [pass[p] EXCEPT !.log = Append(@, Call("list", <<>>, 0, o))]
       IN /\ faultsLeft' = FaultsAfter(o)
          /\ IF o # "ok"
             THEN SetPass(p, Returned(pr, Caught(o)))
             ELSE SetPass(p, [pr EXCEPT !.pc = "apply", !.existingFiles = remote,
                                        !.i = 1])
  /\ UNCHANGED <<envVars, remote, stored, cachedConfig, smConfig, smOrg,
                 smProject, smPatterns, now, lastFailedSyncTime, reqLeft, sup>>

\* The pass record when the apply loop is left: the cleanup phase when it
\* is enabled and not cancelled and has something to delete, else return.
\* A faulty variant: the request is not seen.
neverCancellationRequested(pr) == FALSE

\* token.isCancellationRequested
isCancellationRequested(pr) == pr.cancelled

AfterApply(pr) ==
  LET filesToDelete == filesToDeleteOf(pr.existingFiles, pr.fileContents)
  IN IF /\ smConfig.cleanupRemoteFiles /\ ~isCancellationRequested(pr)
        /\ Len(filesToDelete) > 0
     THEN [pr EXCEPT !.pc = "cleanup", !.filesToDelete = filesToDelete, !.j = 1]
     ELSE Returned(pr, SuccessResult(pr))

\* The head of the apply loop for file i: the cancellation check, the
\* lookup by name and the hash comparison.
ApplyNext(p) ==
  /\ pass[p].pc = "apply"
  /\ LET pr == pass[p]
     IN IF pr.i > Len(pr.fileContents)
        THEN SetPass(p, AfterApply(pr))
        ELSE IF isCancellationRequested(pr)
        THEN SetPass(p, Returned(pr, SuccessResult(pr)))
        ELSE LET file == pr.fileContents[pr.i]
                 k == findExisting(pr.existingFiles, file.path)
             IN IF k = 0
                THEN SetPass(p, [pr EXCEPT !.pc = "up"])
                ELSE IF computeSHA256Hash(pr.existingFiles[k].content)
                          = computeSHA256Hash(file.content)
                THEN SetPass(p, [pr EXCEPT !.skipped = @ + 1, !.i = @ + 1])
                ELSE SetPass(p, [pr EXCEPT !.pc = "del",
                                           !.target = pr.existingFiles[k].uuid])
  /\ UNCHANGED <<envVars, remote, faultsLeft, stored, cachedConfig, smConfig,
                 smOrg, smProject, smPatterns, now, lastFailedSyncTime,
                 reqLeft, sup>>

\* What the store answers to a delete of uuid: a document that is gone
\* is an error (404) or accepted, as the store decides.
DeleteOutcomes(uuid) ==
  IF HasDoc(uuid) THEN Outcomes
  ELSE Outcomes \cup (IF "ok" \in Outcomes THEN {"gone"} ELSE {})

\* claudeClient.deleteFile() of the update case; a failure is thrown out
\* of the loop.
DeleteFile(p) ==
  /\ pass[p].pc = "del"
  /\ \E o \in DeleteOutcomes(pass[p].target) :
       LET pr == [pass[p] EXCEPT !.log = Append(@,
                    Call("delete", pass[p].fileContents[pass[p].i].path,
                         pass[p].target, o))]
       IN /\ faultsLeft' = FaultsAfter(o)
          /\ IF o # "ok"
             THEN /\ SetPass(p, Returned(pr, Caught(o)))
                  /\ UNCHANGED remote
             ELSE /\ remote' = RemoveDoc(pr.target)
                  /\ SetPass(p, [pr EXCEPT !.pc = "up"])
  /\ UNCHANGED <<envVars, stored, cachedConfig, smConfig, smOrg, smProject,
                 smPatterns, now, lastFailedSyncTime, reqLeft, sup>>

\* claudeClient.uploadFile(): a new document; a failure is thrown out of
\* the loop.
UploadFile(p) ==
  /\ pass[p].pc = "up"
  /\ \E o \in Outcomes :
       LET file == pass[p].fileContents[pass[p].i]
           pr == [pass[p] EXCEPT !.log = Append(@,
                    Call("upload", file.path, FreshUuid, o))]
       IN /\ faultsLeft' = FaultsAfter(o)
          /\ IF o # "ok"
             THEN /\ SetPass(p, Returned(pr, Caught(o)))
                  /\ UNCHANGED remote
             ELSE /\ remote' = Append(remote,
                        [uuid |-> FreshUuid, file_name |-> file.path,
                         content |-> file.content])
                  /\ SetPass(p, [pr EXCEPT !.pc = "apply", !.synced = @ + 1,
                                           !.i = @ + 1])
  /\ UNCHANGED <<envVars, stored, cachedConfig, smConfig, smOrg, smProject,
                 smPatterns, now, lastFailedSyncTime, reqLeft, sup>>

\* A faulty variant: a cleanup delete that failed is counted too.
deletedAfterAny(deleted, o) == deleted + 1

\* deleted++ follows the awaited deleteFile inside the try block.
deletedAfter(deleted, o) == IF o = "ok" THEN deleted + 1 ELSE deleted

\* One iteration of the cleanup loop: the delete of filesToDelete[j] in
\* its try/catch; after the last one the pass returns success.
CleanupNext(p) ==
  /\ pass[p].pc = "cleanup"
  /\ \E o \in DeleteOutcomes(pass[p].filesToDelete[pass[p].j].uuid) :
       LET file == pass[p].filesToDelete[pass[p].j]
           pr == [pass[p] EXCEPT
                    !.log = Append(@, Call("cleanup", file.file_name, file.uuid, o)),
                    !.deleted = deletedAfter(@, o),
                    !.cleanupFailed = @ \/ o # "ok",
                    !.j = @ + 1]
       IN /\ faultsLeft' = FaultsAfter(o)
          /\ remote' = IF o = "ok" THEN RemoveDoc(file.uuid) ELSE remote
          /\ IF pr.j > Len(pr.filesToDelete)
             THEN SetPass(p, Returned(pr, SuccessResult(pr)))
             ELSE SetPass(p, pr)
  /\ UNCHANGED <<envVars, stored, cachedConfig, smConfig, smOrg, smProject,
                 smPatterns, now, lastFailedSyncTime, reqLeft, sup>>

\* The operator presses Cancel on the "Uploading to Claude" notification;
\* cancelAt, cancelPc and cancelLog keep how far the pass was (history).
Cancel(p) ==
  /\ pass[p].pc \in {"apply", "del", "up", "cleanup"}
  /\ ~pass[p].cancelled
  /\ pass' = [pass EXCEPT ![p].cancelled = TRUE,
                          ![p].cancelAt = pass[p].i - 1,
                          ![p].cancelPc = pass[p].pc,
                          ![p].cancelLog = Len(pass[p].log)]
  /\ UNCHANGED <<envVars, remote, faultsLeft, stored, cachedConfig, smConfig,
                 smOrg, smProject, smPatterns, now, lastFailedSyncTime,
                 reqLeft, sup, prev>>


\* ------------------------------------- extension.ts syncFiles (supervisor)
\* result.message?.includes('Project not initialized')
\* A faulty variant: no message is taken for the precondition failure.
IncludesNothing(message) == FALSE

\* Of the messages a pass returns, one holds that text.
IncludesNotInitialized(message) == message \in {NotInitializedMessage}

\* A faulty variant: the window is closed at its end.
InCooldownInclusive(t) == t - lastFailedSyncTime <= SYNC_COOLDOWN_MS

\* now - lastFailedSyncTime < SYNC_COOLDOWN_MS
InCooldown(t) == t - lastFailedSyncTime < SYNC_COOLDOWN_MS

\* A sync request (a command, the auto-sync timer, a pattern change): the
\* entry guards of syncFiles, then the retry loop's variables.
SyncRequest(p) ==
  /\ sup[p].pc = "idle"
  /\ reqLeft[p] > 0
  /\ reqLeft' = [reqLeft EXCEPT ![p] = @ - 1]
  /\ LET config == getConfig
     IN /\ cachedConfig' = config
        /\ IF ~config.sessionToken
           THEN sup' = [sup EXCEPT ![p] = [IdleSup EXCEPT !.ui = <<"Please set your Claude session token first">>]]
           ELSE IF ~isProjectInitialized
           THEN sup' = [sup EXCEPT ![p] = [IdleSup EXCEPT !.ui = <<"Project needs to be initialized first">>]]
           ELSE IF InCooldown(now)
           THEN sup' = [sup EXCEPT ![p] = [IdleSup EXCEPT !.ui = <<"log: in cooldown">>]]
           ELSE IF Len(files) = 0
           THEN sup' = [sup EXCEPT ![p] = [IdleSup EXCEPT !.ui = <<"No files to sync">>]]
           ELSE sup' = [sup EXCEPT ![p] = [IdleSup EXCEPT
                          !.pc = "loop",
                          !.namesBefore = {remote[k].file_name :
                                             k \in 1..Len(remote)}]]
  /\ UNCHANGED <<envVars, remote, faultsLeft, stored, smConfig, smOrg,
                 smProject, smPatterns, now, lastFailedSyncTime, pass, prev>>

\* The head of the while loop and the call of syncManager.syncFiles(files).
SupCall(p) ==
  /\ sup[p].pc = "loop"
  /\ IF sup[p].attempt < maxRetries /\ ~sup[p].success
     THEN /\ sup' = [sup EXCEPT ![p].pc = "wait", ![p].invocations = @ + 1]
          /\ pass' = [pass EXCEPT ![p] = [IdlePass EXCEPT !.pc = "start",
                                                       !.persisted = stored]]
     ELSE /\ sup' = [sup EXCEPT ![p].pc = "finish"]
          /\ UNCHANGED pass
  /\ UNCHANGED <<envVars, remote, faultsLeft, stored, cachedConfig, smConfig,
                 smOrg, smProject, smPatterns, now, lastFailedSyncTime,
                 reqLeft, prev>>

TerminalError == "error: Failed to sync files, is your Claude session token correct?"

InitializePrompt == "prompt: Initialize Project"

\* A faulty variant: a failed attempt is not counted.
HandledUncounted(s, result) ==
  IF result.success
  THEN [s EXCEPT !.lastResult = result, !.success = TRUE, !.pc = "finish"]
  ELSE IF IncludesNotInitialized(result.message)
  THEN [s EXCEPT !.lastResult = result, !.success = FALSE, !.pc = "finish",
                 !.ui = Append(@, InitializePrompt)]
  ELSE [s EXCEPT !.lastResult = result, !.pc = "sleep"]

\* The supervisor's record after the pass returned result.
Handled(s, result) ==
  IF result.success
  THEN [s EXCEPT !.lastResult = result, !.success = TRUE, !.pc = "finish"]
  ELSE IF IncludesNotInitialized(result.message)
  THEN [s EXCEPT !.lastResult = result, !.success = FALSE, !.pc = "finish",
                 !.ui = Append(@, InitializePrompt)]
  ELSE [s EXCEPT !.lastResult = result, !.attempt = @ + 1,
                 !.pc = IF s.attempt + 1 >= maxRetries THEN "finish" ELSE "sleep"]

\* The documents the pass has created (history, for the claims).
OkCreates(pr) ==
  Cardinality({k \in 1..Len(pr.log) :
                 pr.log[k].op = "upload" /\ pr.log[k].outcome = "ok"})

\* The body of the loop once the pass has returned.
SupHandle(p) ==
  /\ sup[p].pc = "wait"
  /\ pass[p].pc = "ret"
  /\ sup' = [sup EXCEPT ![p] = [Handled(sup[p], pass[p].result) EXCEPT
                                  !.creates = @ + OkCreates(pass[p])]]
  /\ pass' = [pass EXCEPT ![p].pc = "idle"]
  /\ prev' = Summary(pass[p])
  /\ UNCHANGED <<envVars, remote, faultsLeft, stored, cachedConfig, smConfig,
                 smOrg, smProject, smPatterns, now, lastFailedSyncTime,
                 reqLeft>>

\* The backoff: await setTimeout(resolve, 3000).
SupSleep(p) ==
  /\ sup[p].pc = "sleep"
  /\ now' = now + BackoffMs
  /\ sup' = [sup EXCEPT ![p].pc = "loop", ![p].sleeps = @ + 1]
  /\ UNCHANGED <<envVars, remote, faultsLeft, stored, cachedConfig, smConfig,
                 smOrg, smProject, smPatterns, lastFailedSyncTime, reqLeft,
                 pass, prev>>

\* A faulty variant: the success message reports the documents created by all the
\* attempts of the run.
ReportedSyncedRun(s) == s.creates

\* The number the success message reports.
ReportedSynced(s) == IF s.lastResult.hasData THEN s.lastResult.syncedFiles ELSE 0

\* After the loop: a failure starts the cooldown and shows the error, a
\* success waits 500 ms and reports the synced count.
SupFinish(p) ==
  /\ sup[p].pc = "finish"
  /\ IF ~sup[p].success
     THEN /\ lastFailedSyncTime' = now
          /\ now' = now
          /\ prev' = [prev EXCEPT !.failedAt = now]
          /\ sup' = [sup EXCEPT ![p].pc = "idle",
                                ![p].ui = Append(@, TerminalError)]
     ELSE /\ now' = now + SuccessDelayMs
          /\ UNCHANGED <<lastFailedSyncTime, prev>>
          /\ sup' = [sup EXCEPT ![p].pc = "idle",
                                ![p].ui = Append(@,
                                   IF ReportedSynced(sup[p]) = 0
                                   THEN "info: all files were up to date"
                                   ELSE "info: Successfully synced")]
  /\ UNCHANGED <<envVars, remote, faultsLeft, stored, cachedConfig, smConfig,
                 smOrg, smProject, smPatterns, reqLeft, pass>>

\* ------------------------------------------------------- specifications
StartTime == 2 * SYNC_COOLDOWN_MS

\* Candidate lists: one or two of a and d/a (the same file twice too), and
\* the whole workspace.
FileLists == {<<x>> : x \in {PathA, PathDA}}
             \cup {<<x, y>> : x \in {PathA, PathDA}, y \in {PathA, PathDA}}
             \cup {<<PathA, PathDA, PathB>>}

\* The documents an initial listing is made of: a with "A" or "B", d/a
\* with "A".
Docs == {d \in [file_name : {PathA, PathDA}, content : RemoteContents] :
           d.file_name = PathDA => d.content = <<65>>}

\* The workspaces: a holds any of the local contents, d/a and b hold "A".
LocalWorkspaces == {fs \in [Paths -> LocalContents] :
                      fs[PathDA] = BytesA /\ fs[PathB] = BytesA}

\* Initial listings: up to two documents, with uuids 1, 2 in listing order.
RemoteListings ==
  {<<>>} \cup {<<[uuid |-> 1, file_name |-> d.file_name, content |-> d.content]>> :
                 d \in Docs}
         \cup {<<[uuid |-> 1, file_name |-> d.file_name, content |-> d.content],
                 [uuid |-> 2, file_name |-> e.file_name, content |-> e.content]>> :
                 d \in Docs, e \in Docs}

Config(token, exists, ids, cleanup) ==
  [loaded |-> TRUE, fileExists |-> exists, sessionToken |-> token,
   hasIds |-> ids, excludePatterns |-> {}, maxFileSize |-> MaxFileSize,
   cleanupRemoteFiles |-> cleanup, autoSync |-> TRUE,
   syncOnStartup |-> FALSE, addToGitignore |-> TRUE]

\* After activation: the SyncManager was built from the loaded
\* configuration, nothing is running.
InitState(cfg) ==
  /\ stored = cfg
  /\ cachedConfig = cfg
  /\ smConfig = cfg
  /\ smOrg = FALSE
  /\ smProject = FALSE
  /\ smPatterns = <<>>
  /\ now = StartTime
  /\ lastFailedSyncTime = 0
  /\ sup = [p \in Procs |-> IdleSup]
  /\ pass = [p \in Procs |-> IdlePass]
  /\ prev = NoPrev
  /\ auto = IdleAuto
  /\ cfgOps = IdleCfg
  /\ ignoreAnswer = NoAnswer
  /\ binaryAnswer = NoClassification

\* One requester, requests one after the other, a bounded number of
\* transient remote failures, every combination of the small inputs.
Init ==
  /\ files \in FileLists
  /\ localFs \in LocalWorkspaces
  /\ gitignoreFile = <<>>
  /\ gitRepo = FALSE
  /\ matchAnswer = NoMatch
  /\ remote \in RemoteListings
  /\ remoteAcct = [org |-> TRUE, proj |-> TRUE]
  /\ remoteMode = "budget"
  /\ faultsLeft = MaxFaults
  /\ reqLeft = [p \in Procs |-> IF p = 1 THEN MaxRequests ELSE 0]
  /\ \E cleanup \in BOOLEAN : InitState(Config(TRUE, TRUE, TRUE, cleanup))

\* The steps the extension host runs by itself once they are enabled.
ProgramStep(p) ==
  \/ SupCall(p)
  \/ SupHandle(p)
  \/ SupSleep(p)
  \/ SupFinish(p)
  \/ PassStart(p)
  \/ GetOrganizations(p)
  \/ GetProjects(p)
  \/ Prepare(p)
  \/ ListFiles(p)
  \/ ApplyNext(p)
  \/ DeleteFile(p)
  \/ UploadFile(p)
  \/ CleanupNext(p)

\* The operator's and the watcher's steps.
OperatorStep(p) ==
  \/ SyncRequest(p)
  \/ Cancel(p)

Next == \E p \in Procs : ProgramStep(p) \/ OperatorStep(p)

Spec == Init /\ [][Next]_vars

\* claudeClient.uploadFile() whose request reached the store and whose
\* answer did not reach the client: axios rejects, makeRequest rethrows,
\* and the document is there.
UploadLost(p) ==
  /\ pass[p].pc = "up"
  /\ "transient" \in Outcomes
  /\ LET file == pass[p].fileContents[pass[p].i]
         pr == [pass[p] EXCEPT !.log = Append(@,
                  Call("upload", file.path, FreshUuid, "transient"))]
     IN /\ faultsLeft' = FaultsAfter("transient")
        /\ remote' = Append(remote,
              [uuid |-> FreshUuid, file_name |-> file.path,
               content |-> file.content])
        /\ SetPass(p, Returned(pr, Caught("transient")))
  /\ UNCHANGED <<envVars, stored, cachedConfig, smConfig, smOrg, smProject,
                 smPatterns, now, lastFailedSyncTime, reqLeft, sup>>

\* No path occurs twice in the list.
NoRepeats(list) == \A k, m \in 1..Len(list) : list[k] = list[m] => k = m

\* Retries after a partial application: a candidate list without repeats,
\* a listing with unique names, a store that fails some calls, before or
\* after it applied them.
InitConverge ==
  /\ files \in {f \in FileLists : NoRepeats(f)}
  /\ localFs \in LocalWorkspaces
  /\ gitignoreFile = <<>>
  /\ gitRepo = FALSE
  /\ matchAnswer = NoMatch
  /\ remote \in {l \in RemoteListings : UniqueNames(l)}
  /\ remoteAcct = [org |-> TRUE, proj |-> TRUE]
  /\ remoteMode = "budget"
  /\ faultsLeft = MaxFaults
  /\ reqLeft = [p \in Procs |-> IF p = 1 THEN 1 ELSE 0]
  /\ \E cleanup \in BOOLEAN : InitState(Config(TRUE, TRUE, TRUE, cleanup))

NextConverge == Next \/ \E p \in Procs : UploadLost(p)

SpecConverge == InitConverge /\ [][NextConverge]_vars

\* The retry loop on its own: one request, a store that fails any call at
\* will or rejects the session token on every call, a configuration with
\* or without the project ids.
InitRetry ==
  /\ files \in {<<PathA>>, <<PathA, PathDA>>}
  /\ localFs = [x \in Paths |-> BytesA]
  /\ gitignoreFile = <<>>
  /\ gitRepo = FALSE
  /\ matchAnswer = NoMatch
  /\ remote \in {<<>>, <<[uuid |-> 1, file_name |-> PathA, content |-> <<66>>],
                         [uuid |-> 2, file_name |-> PathDA, content |-> <<65>>]>>}
  /\ remoteAcct = [org |-> TRUE, proj |-> TRUE]
  /\ remoteMode \in {"flaky", "auth"}
  /\ faultsLeft = 0
  /\ reqLeft = [p \in Procs |-> IF p = 1 THEN 1 ELSE 0]
  /\ \E ids \in BOOLEAN : InitState(Config(TRUE, TRUE, ids, TRUE))

\* The event loop runs every continuation that is ready; the store answers
\* every call.
SpecRetry ==
  InitRetry /\ [][Next]_vars /\ WF_vars(\E p \in Procs : ProgramStep(p))

\* Two requesters (a command and the auto-sync timer), one request each,
\* a store that answers every call.
InitConc ==
  /\ files \in {<<PathA>>, <<PathA, PathDA>>}
  /\ localFs = [x \in Paths |-> BytesA]
  /\ gitignoreFile = <<>>
  /\ gitRepo = FALSE
  /\ matchAnswer = NoMatch
  /\ remote \in {<<>>, <<[uuid |-> 1, file_name |-> PathA, content |-> <<66>>],
                         [uuid |-> 2, file_name |-> PathDA, content |-> <<65>>]>>}
  /\ remoteAcct = [org |-> TRUE, proj |-> TRUE]
  /\ remoteMode = "budget"
  /\ faultsLeft \in {0, 1}
  /\ reqLeft = [p \in Procs |-> 1]
  /\ InitState(Config(TRUE, TRUE, TRUE, TRUE))

SpecConc == InitConc /\ [][Next]_vars

\* The steps the clock is followed by after a run has ended without
\* success: to one millisecond before the end of the window and by single
\* milliseconds.
TickSteps == {1, SYNC_COOLDOWN_MS - 1}

\* Date.now() grows between two requests.
Tick ==
  /\ prev.failedAt > 0
  /\ \E d \in TickSteps :
       /\ now + d - prev.failedAt <= SYNC_COOLDOWN_MS + 1
       /\ now' = now + d
  /\ UNCHANGED <<envVars, remote, faultsLeft, stored, cachedConfig, smConfig,
                 smOrg, smProject, smPatterns, lastFailedSyncTime, reqLeft,
                 sup, pass, prev>>

\* One requester asking again after a run: a store that answers every call
\* or rejects the session token, a configuration with or without the
\* project ids.
InitCooldown ==
  /\ files = <<PathA>>
  /\ localFs = [x \in Paths |-> BytesA]
  /\ gitignoreFile = <<>>
  /\ gitRepo = FALSE
  /\ matchAnswer = NoMatch
  /\ remote \in {<<>>, <<[uuid |-> 1, file_name |-> PathA, content |-> <<66>>],
                         [uuid |-> 2, file_name |-> PathDA, content |-> <<65>>]>>}
  /\ remoteAcct = [org |-> TRUE, proj |-> TRUE]
  /\ remoteMode \in {"budget", "auth"}
  /\ faultsLeft = 0
  /\ reqLeft = [p \in Procs |-> IF p = 1 THEN MaxRequests ELSE 0]
  /\ \E ids \in BOOLEAN : InitState(Config(TRUE, TRUE, ids, TRUE))

NextCooldown == Next \/ Tick

SpecCooldown == InitCooldown /\ [][NextCooldown]_vars


\* ------------------------------------------------------ claim vocabulary
\* A candidate is eligible under the configuration the pass started with:
\* not excluded, within maxFileSize, not binary.
EligibleIn(pr, path) ==
  /\ ~isExcluded(pr.startConfig, loadGitignore(gitignoreFile), path)
  /\ Len(localFs[path]) <= pr.startConfig.maxFileSize
  /\ ~isBinaryContent(localFs[path])

EligiblePaths(pr) == {x \in Range(files) : EligibleIn(pr, x)}

Prepared(pr) == pr.startConfig # NoConfig

Listed(pr) == \E k \in 1..Len(pr.log) : pr.log[k].op = "list" /\ pr.log[k].outcome = "ok"

\* The positions of the log that hold a call of one of the ops.
CallsOf(pr, ops) == {k \in 1..Len(pr.log) : pr.log[k].op \in ops}

RemoteHolds(path, content) ==
  \E k \in 1..Len(remote) : remote[k].file_name = path /\ remote[k].content = content

\* The document of the listing the apply loop matches a path with.
IsMatched(pr, k) ==
  k = findExisting(pr.existingFiles, pr.existingFiles[k].file_name)

\* C1 (as claimed): after a successful pass that was not cancelled, every
\* eligible candidate has a remote document with its path as file_name and
\* its local content as content.
C1_RoundTrip ==
  \A p \in Procs :
    (pass[p].pc = "ret" /\ pass[p].result.success /\ ~pass[p].cancelled)
    => \A x \in EligiblePaths(pass[p]) : RemoteHolds(x, TextDecode(localFs[x]))

\* C3 (as claimed): within one pass at most one create succeeds per
\* file_name, whatever the candidate list.
C3_OneCreatePerName ==
  \A p \in Procs : \A x \in Paths :
    Cardinality({k \in CallsOf(pass[p], {"upload"}) :
                   pass[p].log[k].name = x /\ pass[p].log[k].outcome = "ok"}) <= 1

\* C5 (as claimed): a pass in which an upload or a delete of the apply
\* loop failed with an error other than an authentication error is not
\* failed as a whole.
C5_FailureIsolation ==
  \A p \in Procs :
    (/\ pass[p].pc = "ret"
     /\ \E k \in CallsOf(pass[p], {"upload", "delete"}) :
          pass[p].log[k].outcome \in {"transient", "gone"})
    => pass[p].result.success

\* The cleanup policy on the pass pr that has returned, for the documents
\* of its listing.
CleanupPolicy(pr) ==
  \A k \in 1..Len(pr.existingFiles) :
    LET doc == pr.existingFiles[k]
        orphan == doc.file_name \notin EligiblePaths(pr)
        cleanups == {c \in CallsOf(pr, {"cleanup"}) : pr.log[c].uuid = doc.uuid}
        updates == {c \in CallsOf(pr, {"delete"}) : pr.log[c].uuid = doc.uuid}
    IN IF pr.startConfig.cleanupRemoteFiles
       THEN /\ orphan => (Cardinality(cleanups) = 1 /\ updates = {})
            /\ ~orphan => (cleanups = {} /\ (updates # {} => IsMatched(pr, k)))
       ELSE orphan => (cleanups = {} /\ updates = {} /\ doc \in Range(remote))

NoMutations(pr) == CallsOf(pr, {"upload", "delete", "cleanup"}) = {}

AllSkipped(res) ==
  /\ res.skippedFiles = res.totalFiles
  /\ res.syncedFiles = 0
  /\ res.deletedFiles = 0

CompletePass(h) ==
  /\ h.valid /\ h.result.success
  /\ ~h.cancelled /\ ~h.cleanupFailed /\ h.binaryFiles = {} /\ h.uniqueNames

MaxOverrun == 2
RetryDelayMs == 150

MaximumRetriesError == "error: Failed to sync files after maximum retries"

\* syncFiles(files) up to the retry loop: the token and the
\* initialization are tested, there is no cooldown.
SyncRequestEarlier(p) ==
  /\ sup[p].pc = "idle"
  /\ reqLeft[p] > 0
  /\ reqLeft' = [reqLeft EXCEPT ![p] = @ - 1]
  /\ LET config == getConfig
     IN /\ cachedConfig' = config
        /\ IF ~config.sessionToken
           THEN sup' = [sup EXCEPT ![p] = [IdleSup EXCEPT !.ui = <<"Please set your Claude session token first">>]]
           ELSE IF ~isProjectInitialized
           THEN sup' = [sup EXCEPT ![p] = [IdleSup EXCEPT !.ui = <<"Project needs to be initialized first">>]]
           ELSE sup' = [sup EXCEPT ![p] = [IdleSup EXCEPT !.pc = "loop"]]
  /\ UNCHANGED <<envVars, remote, faultsLeft, stored, smConfig, smOrg,
                 smProject, smPatterns, now, lastFailedSyncTime, pass, prev>>

\* The head of the while loop, followed as far as MaxOverrun invocations
\* beyond maxRetries.
SupCallEarlier(p) ==
  /\ sup[p].invocations < maxRetries + MaxOverrun
  /\ SupCall(p)

\* The body of the loop: attempt is counted, after the delay, only while
\* attempt < maxRetries - 1; otherwise the loop goes on at once.
HandledEarlier(s, result) ==
  IF result.success
  THEN [s EXCEPT !.lastResult = result, !.success = TRUE, !.pc = "finish"]
  ELSE IF IncludesNotInitialized(result.message)
  THEN [s EXCEPT !.lastResult = result, !.success = FALSE, !.pc = "finish",
                 !.ui = Append(@, InitializePrompt)]
  ELSE IF s.attempt < maxRetries - 1
  THEN [s EXCEPT !.lastResult = result, !.pc = "sleep"]
  ELSE [s EXCEPT !.lastResult = result, !.pc = "loop"]

SupHandleEarlier(p) ==
  /\ sup[p].pc = "wait"
  /\ pass[p].pc = "ret"
  /\ sup' = [sup EXCEPT ![p] = [HandledEarlier(sup[p], pass[p].result) EXCEPT
                                  !.creates = @ + OkCreates(pass[p])]]
  /\ pass' = [pass EXCEPT ![p].pc = "idle"]
  /\ prev' = Summary(pass[p])
  /\ UNCHANGED <<envVars, remote, faultsLeft, stored, cachedConfig, smConfig,
                 smOrg, smProject, smPatterns, now, lastFailedSyncTime,
                 reqLeft>>

\* await setTimeout(resolve, 150); attempt++
SupSleepEarlier(p) ==
  /\ sup[p].pc = "sleep"
  /\ now' = now + RetryDelayMs
  /\ sup' = [sup EXCEPT ![p].pc = "loop", ![p].sleeps = @ + 1,
                        ![p].attempt = @ + 1]
  /\ UNCHANGED <<envVars, remote, faultsLeft, stored, cachedConfig, smConfig,
                 smOrg, smProject, smPatterns, lastFailedSyncTime, reqLeft,
                 pass, prev>>

\* After the loop: the success message after 500 ms, or the error when
\* attempt >= maxRetries.
SupFinishEarlier(p) ==
  /\ sup[p].pc = "finish"
  /\ now' = IF sup[p].success THEN now + SuccessDelayMs ELSE now
  /\ sup' = [sup EXCEPT
       ![p].pc = "idle",
       ![p].ui = IF sup[p].success THEN Append(@, "info: Successfully synced")
                 ELSE IF sup[p].attempt >= maxRetries
                 THEN Append(@, MaximumRetriesError)
                 ELSE @]
  /\ UNCHANGED <<envVars, remote, faultsLeft, stored, cachedConfig, smConfig,
                 smOrg, smProject, smPatterns, lastFailedSyncTime, reqLeft,
                 pass, prev>>

PassStep(p) ==
  \/ PassStart(p)
  \/ GetOrganizations(p)
  \/ GetProjects(p)
  \/ Prepare(p)
  \/ ListFiles(p)
  \/ ApplyNext(p)
  \/ DeleteFile(p)
  \/ UploadFile(p)
  \/ CleanupNext(p)

NextEarlier ==
  \E p \in Procs :
    \/ SyncRequestEarlier(p)
    \/ SupCallEarlier(p)
    \/ SupHandleEarlier(p)
    \/ SupSleepEarlier(p)
    \/ SupFinishEarlier(p)
    \/ PassStep(p)

SpecEarlier == InitRetry /\ [][NextEarlier]_vars

\* ------------------------------------------- extension.ts: auto-sync timer
MaxEvents == 3
MaxRefreshes == 1

\* The test of handleFileChange: ^pattern$ against the relative path, for
\* patterns without *, ? and dots.
watcherExcluded(excludePatterns, relativePath) == relativePath \in excludePatterns

\* A handler whose getConfig found the cache filled goes on in the same
\* turn of the event loop, before any timer or I/O callback.
MicrotaskPending == \E h \in auto.handlers : h.micro

\* The watcher reports a change or creation of uri: handleFileChange
\* starts and awaits getConfig.
FileChange(uri) ==
  /\ auto.events < MaxEvents
  /\ ~MicrotaskPending
  /\ auto' = [auto EXCEPT
       !.events = @ + 1,
       !.changed = @ \cup {uri},
       !.burst = @ /\ auto.calls = <<>>,
       !.handlers = @ \cup {[id |-> auto.events + 1, uri |-> uri,
                             micro |-> cachedConfig.loaded]}]
  /\ UNCHANGED <<files, localFs, gitignoreFile, remoteAcct, remoteMode,
                 remote, faultsLeft, stored, cachedConfig, smConfig, smOrg,
                 smProject, smPatterns, now, lastFailedSyncTime, reqLeft,
                 sup, pass, prev,
                 cfgOps, ignoreAnswer, binaryAnswer, gitRepo, matchAnswer>>

\* clearTimeout(autoSyncTimer)
clearTimeout(pending, timer) == {t \in pending : t.id # timer}


\* handleFileChange after its getConfig returned: the two guards, then
\* the pending timer is cleared and a new one started.
HandlerResume(h) ==
  /\ h \in auto.handlers
  /\ h.micro \/ ~MicrotaskPending
  /\ LET config == IF h.micro THEN cachedConfig
                   ELSE [stored EXCEPT !.loaded = TRUE]
         timer == [id |-> h.id, uri |-> h.uri]
     IN /\ cachedConfig' = config
        /\ IF \/ ~config.autoSync \/ ~config.sessionToken
              \/ watcherExcluded(config.excludePatterns, h.uri)
           THEN auto' = [auto EXCEPT !.handlers = @ \ {h}]
           ELSE auto' = [auto EXCEPT
                  !.handlers = @ \ {h},
                  !.pending = clearTimeout(@, auto.autoSyncTimer) \cup {timer},
                  !.autoSyncTimer = h.id]
  /\ UNCHANGED <<files, localFs, gitignoreFile, remoteAcct, remoteMode,
                 remote, faultsLeft, stored, smConfig, smOrg, smProject,
                 smPatterns, now, lastFailedSyncTime, reqLeft, sup, pass,
                 prev,
                 cfgOps, ignoreAnswer, binaryAnswer, gitRepo, matchAnswer>>

\* The delay of a pending timer is over: its callback calls
\* syncFiles([uri]).
TimerFire(t) ==
  /\ t \in auto.pending
  /\ ~MicrotaskPending
  /\ auto' = [auto EXCEPT !.pending = @ \ {t}, !.calls = Append(@, t.uri)]
  /\ UNCHANGED <<files, localFs, gitignoreFile, remoteAcct, remoteMode,
                 remote, faultsLeft, stored, cachedConfig, smConfig, smOrg,
                 smProject, smPatterns, now, lastFailedSyncTime, reqLeft,
                 sup, pass, prev,
                 cfgOps, ignoreAnswer, binaryAnswer, gitRepo, matchAnswer>>

\* configWatcher.onDidChange: clearCache(), then getConfig is awaited.
RefreshStart ==
  /\ auto.refresh = "idle"
  /\ auto.refreshes < MaxRefreshes
  /\ ~MicrotaskPending
  /\ cachedConfig' = NoConfig
  /\ auto' = [auto EXCEPT !.refresh = "reading", !.refreshes = @ + 1]
  /\ UNCHANGED <<files, localFs, gitignoreFile, remoteAcct, remoteMode,
                 remote, faultsLeft, stored, smConfig, smOrg, smProject,
                 smPatterns, now, lastFailedSyncTime, reqLeft, sup, pass,
                 prev,
                 cfgOps, ignoreAnswer, binaryAnswer, gitRepo, matchAnswer>>

\* `const configWatcher` is assigned before updateSyncManager is called
\* for the first time.
configWatcherDefined == TRUE

\* updateSyncManager: whether it runs claudesync.syncWorkspace.
startupSyncDue(config) ==
  /\ ~configWatcherDefined
  /\ isProjectInitialized
  /\ config.sessionToken
  /\ config.syncOnStartup

\* The refresh once the configuration is read: the cache is filled and
\* updateSyncManager builds a new SyncManager from it.
RefreshDone ==
  /\ auto.refresh = "reading"
  /\ ~MicrotaskPending
  /\ LET config == [stored EXCEPT !.loaded = TRUE]
     IN /\ cachedConfig' = config
        /\ smConfig' = config
  /\ smOrg' = FALSE
  /\ smProject' = FALSE
  /\ smPatterns' = <<>>
  /\ auto' = [auto EXCEPT
                !.refresh = "idle",
                !.startupSyncs = IF startupSyncDue([stored EXCEPT !.loaded = TRUE])
                                 THEN @ + 1 ELSE @]
  /\ UNCHANGED <<files, localFs, gitignoreFile, remoteAcct, remoteMode,
                 remote, faultsLeft, stored, now, lastFailedSyncTime,
                 reqLeft, sup, pass, prev,
                 cfgOps, ignoreAnswer, binaryAnswer, gitRepo, matchAnswer>>

\* activate() up to the end of its first updateSyncManager: the
\* configuration is loaded, the SyncManager is built, and the workspace
\* sync is run when startupSyncDue says so.
Activate ==
  /\ auto.refresh = "inactive"
  /\ LET config == [stored EXCEPT !.loaded = TRUE]
     IN /\ cachedConfig' = config
        /\ smConfig' = config
        /\ auto' = [auto EXCEPT
                      !.refresh = "idle",
                      !.startupSyncs = IF startupSyncDue(config)
                                       THEN @ + 1 ELSE @]
  /\ UNCHANGED <<files, localFs, gitignoreFile, remoteAcct, remoteMode,
                 remote, faultsLeft, stored, smOrg, smProject, smPatterns,
                 now, lastFailedSyncTime, reqLeft, sup, pass, prev,
                 cfgOps, ignoreAnswer, binaryAnswer, gitRepo, matchAnswer>>

\* The watcher's events and the timer on their own: auto-sync on or off,
\* no exclude pattern, the file b excluded, or the directory d excluded.
InitDebounce ==
  /\ files = <<PathA>>
  /\ localFs = [x \in Paths |-> BytesA]
  /\ gitignoreFile = <<>>
  /\ gitRepo = FALSE
  /\ matchAnswer = NoMatch
  /\ remote = <<>>
  /\ remoteAcct = [org |-> TRUE, proj |-> TRUE]
  /\ remoteMode = "budget"
  /\ faultsLeft = 0
  /\ reqLeft = [p \in Procs |-> 0]
  /\ \E on \in BOOLEAN, ex \in {{}, {PathB}, {<<"d">>}} :
       InitState([Config(TRUE, TRUE, TRUE, TRUE) EXCEPT
                    !.autoSync = on, !.excludePatterns = ex])

NextDebounce ==
  \/ \E uri \in {PathA, PathB, PathDA} : FileChange(uri)
  \/ \E h \in auto.handlers : HandlerResume(h)
  \/ \E t \in auto.pending : TimerFire(t)
  \/ RefreshStart
  \/ RefreshDone

SpecDebounce == InitDebounce /\ [][NextDebounce]_vars

\* The timer callback with the call it makes: syncFiles([uri]) up to the
\* retry loop, taken when no run is under way; the requester is the timer.
TimerSync(t) ==
  /\ t \in auto.pending
  /\ ~MicrotaskPending
  /\ \A q \in Procs : sup[q].pc = "idle"
  /\ auto' = [auto EXCEPT !.pending = @ \ {t}, !.calls = Append(@, t.uri)]
  /\ files' = <<t.uri>>
  /\ LET config == getConfig
         p == 2
     IN /\ cachedConfig' = config
        /\ IF ~config.sessionToken
           THEN sup' = [sup EXCEPT ![p] = [IdleSup EXCEPT !.ui = <<"Please set your Claude session token first">>]]
           ELSE IF ~isProjectInitialized
           THEN sup' = [sup EXCEPT ![p] = [IdleSup EXCEPT !.ui = <<"Project needs to be initialized first">>]]
           ELSE IF InCooldown(now)
           THEN sup' = [sup EXCEPT ![p] = [IdleSup EXCEPT !.ui = <<"log: in cooldown">>]]
           ELSE sup' = [sup EXCEPT ![p] = [IdleSup EXCEPT
                          !.pc = "loop",
                          !.namesBefore = {remote[k].file_name :
                                             k \in 1..Len(remote)}]]
  /\ UNCHANGED <<localFs, gitignoreFile, remoteAcct, remoteMode,
                 remote, faultsLeft, stored, smConfig, smOrg, smProject,
                 smPatterns, now, lastFailedSyncTime, reqLeft, pass, prev,
                 cfgOps, ignoreAnswer, binaryAnswer, gitRepo, matchAnswer>>

\* Auto-sync from the change events to the passes: a and d/a were written
\* locally, the project holds an older a.
InitAuto ==
  /\ files = <<PathA>>
  /\ localFs = [x \in Paths |-> BytesA]
  /\ gitignoreFile = <<>>
  /\ gitRepo = FALSE
  /\ matchAnswer = NoMatch
  /\ remote = <<[uuid |-> 1, file_name |-> PathA, content |-> <<66>>]>>
  /\ remoteAcct = [org |-> TRUE, proj |-> TRUE]
  /\ remoteMode = "budget"
  /\ faultsLeft = MaxFaults
  /\ reqLeft = [p \in Procs |-> 0]
  /\ \E cleanup \in BOOLEAN : InitState(Config(TRUE, TRUE, TRUE, cleanup))

NextAuto ==
  \/ \E uri \in {PathA, PathDA} : FileChange(uri)
  \/ \E h \in auto.handlers : HandlerResume(h)
  \/ \E t \in auto.pending : TimerSync(t)
  \/ \E p \in Procs : ProgramStep(p)

SpecAuto == InitAuto /\ [][NextAuto]_vars

\* --------------------------------------- extension.ts: setupFileWatcher
MaxSetups == 3

\* The head of setupFileWatcher: the watcher fileWatcher refers to is
\* disposed and the reference cleared; watchers holds the watchers that
\* were created and not disposed.
disposeCurrent(a) ==
  [a EXCEPT !.watchers = @ \ {a.fileWatcher}, !.fileWatcher = 0]

\* A call of setupFileWatcher begun: after the disposal it awaits
\* isProjectInitialized and getConfig.
setupBegun(a) ==
  [disposeCurrent(a) EXCEPT
     !.setupCalls = @ + 1,
     !.setups = @ \cup {[id |-> a.setupCalls + 1]}]

\* setupFileWatcher is called by updateSyncManager (the refresh after a
\* change of the configuration file, or a token update).
SetupStart ==
  /\ auto.setupCalls < MaxSetups
  /\ ~MicrotaskPending
  /\ auto' = setupBegun(auto)
  /\ UNCHANGED <<files, localFs, gitignoreFile, remoteAcct, remoteMode,
                 remote, faultsLeft, stored, cachedConfig, smConfig, smOrg,
                 smProject, smPatterns, now, lastFailedSyncTime, reqLeft,
                 sup, pass, prev,
                 cfgOps, ignoreAnswer, binaryAnswer, gitRepo, matchAnswer>>

\* Configure Auto-sync: the choice is saved and setupFileWatcher called.
ConfigureAutoSync(enable) ==
  /\ auto.setupCalls < MaxSetups
  /\ ~MicrotaskPending
  /\ stored' = [stored EXCEPT !.autoSync = enable, !.fileExists = TRUE]
  /\ cachedConfig' = NoConfig
  /\ auto' = setupBegun(auto)
  /\ UNCHANGED <<files, localFs, gitignoreFile, remoteAcct, remoteMode,
                 remote, faultsLeft, smConfig, smOrg,
                 smProject, smPatterns, now, lastFailedSyncTime, reqLeft,
                 sup, pass, prev,
                 cfgOps, ignoreAnswer, binaryAnswer, gitRepo, matchAnswer>>

\* The rest of a setupFileWatcher call, after its awaits: when the
\* project is initialized, a token is set and auto-sync is on, a watcher
\* is created and assigned to fileWatcher.
SetupFinish(s) ==
  /\ s \in auto.setups
  /\ ~MicrotaskPending
  /\ LET config == getConfig
         watcher == s.id
     IN /\ cachedConfig' = config
        /\ IF isProjectInitialized /\ config.sessionToken /\ config.autoSync
           THEN auto' = [auto EXCEPT !.setups = @ \ {s},
                                     !.watchers = @ \cup {watcher},
                                     !.fileWatcher = watcher]
           ELSE auto' = [auto EXCEPT !.setups = @ \ {s}]
  /\ UNCHANGED <<files, localFs, gitignoreFile, remoteAcct, remoteMode,
                 remote, faultsLeft, stored, smConfig, smOrg,
                 smProject, smPatterns, now, lastFailedSyncTime, reqLeft,
                 sup, pass, prev,
                 cfgOps, ignoreAnswer, binaryAnswer, gitRepo, matchAnswer>>

\* At activation, before updateSyncManager's first setupFileWatcher call:
\* fileWatcher is undefined and no watcher exists.
InitWatcher ==
  /\ files = <<PathA>>
  /\ localFs = [x \in Paths |-> BytesA]
  /\ gitignoreFile = <<>>
  /\ gitRepo = FALSE
  /\ matchAnswer = NoMatch
  /\ remote = <<>>
  /\ remoteAcct = [org |-> TRUE, proj |-> TRUE]
  /\ remoteMode = "budget"
  /\ faultsLeft = 0
  /\ reqLeft = [p \in Procs |-> 0]
  /\ \E token \in BOOLEAN, exists \in BOOLEAN, on \in BOOLEAN :
       InitState([Config(token, exists, exists, TRUE) EXCEPT !.autoSync = on])

NextWatcher ==
  \/ SetupStart
  \/ \E enable \in BOOLEAN : ConfigureAutoSync(enable)
  \/ \E s \in auto.setups : SetupFinish(s)

SpecWatcher == InitWatcher /\ [][NextWatcher]_vars

\* A change event is delivered by a watcher that was not disposed.
WatchedChange(uri) ==
  /\ auto.watchers # {}
  /\ FileChange(uri)

\* Auto-sync is on and its watcher live; a was written locally and the
\* project holds an older a.
InitDisable ==
  /\ files = <<PathA>>
  /\ localFs = [x \in Paths |-> BytesA]
  /\ gitignoreFile = <<>>
  /\ gitRepo = FALSE
  /\ matchAnswer = NoMatch
  /\ remote = <<[uuid |-> 1, file_name |-> PathA, content |-> <<66>>]>>
  /\ remoteAcct = [org |-> TRUE, proj |-> TRUE]
  /\ remoteMode = "budget"
  /\ faultsLeft = MaxFaults
  /\ reqLeft = [p \in Procs |-> 0]
  /\ lastFailedSyncTime = 0
  /\ now = StartTime
  /\ sup = [p \in Procs |-> IdleSup]
  /\ pass = [p \in Procs |-> IdlePass]
  /\ prev = NoPrev
  /\ cfgOps = IdleCfg
  /\ ignoreAnswer = NoAnswer
  /\ binaryAnswer = NoClassification
  /\ stored \in {Config(TRUE, TRUE, TRUE, cleanup) : cleanup \in BOOLEAN}
  /\ cachedConfig = stored
  /\ smConfig = stored
  /\ smOrg = FALSE
  /\ smProject = FALSE
  /\ smPatterns = <<>>
  /\ auto = [IdleAuto EXCEPT !.fileWatcher = 1, !.watchers = {1},
                             !.setupCalls = 1]

NextDisable ==
  \/ \E uri \in {PathA, PathDA} : WatchedChange(uri)
  \/ \E h \in auto.handlers : HandlerResume(h)
  \/ \E t \in auto.pending : TimerSync(t)
  \/ \E p \in Procs : ProgramStep(p)
  \/ \E enable \in BOOLEAN : ConfigureAutoSync(enable)
  \/ \E s \in auto.setups : SetupFinish(s)

SpecDisable == InitDisable /\ [][NextDisable]_vars

\* ------------------------------------------- ConfigManager: cache and saves
MaxGets == 2
MaxSaves == 2

\* The values of a configuration object: whether claudesync.json exists is
\* a fact about the file, not one of them; addToGitignore of a
\* configuration object is 'get("addToGitignore") || true'.
ConfigValues(config) ==
  [config EXCEPT !.loaded = TRUE, !.fileExists = TRUE, !.addToGitignore = TRUE]

\* { ...globalConfig, ...workspaceConfig }
Merged(token, workspaceConfig) ==
  [workspaceConfig EXCEPT !.sessionToken = token, !.loaded = TRUE,
                          !.addToGitignore = TRUE]

\* getConfig is called. With a cached snapshot it returns it at once;
\* without one it reads the global settings and begins to read the file.
GetConfigCall ==
  /\ cfgOps.gets < MaxGets
  /\ LET quiet == cfgOps.save.pc = "idle"
     IN IF cachedConfig.loaded
        THEN cfgOps' = [cfgOps EXCEPT
               !.gets = @ + 1,
               !.last = [checked |-> quiet /\ cfgOps.writes > 0,
                         value |-> ConfigValues(cachedConfig),
                         expected |-> ConfigValues(stored)]]
        ELSE cfgOps' = [cfgOps EXCEPT
               !.gets = @ + 1,
               !.reads = @ \cup {[id |-> cfgOps.gets + 1, pc |-> "reading",
                                  sessionToken |-> stored.sessionToken,
                                  workspaceConfig |-> NoConfig,
                                  epoch |-> cfgOps.writes, quiet |-> quiet]}]
  /\ UNCHANGED <<files, localFs, gitignoreFile, remote, remoteAcct, remoteMode,
                 faultsLeft, stored, cachedConfig, smConfig, smOrg, smProject,
                 smPatterns, now, lastFailedSyncTime, reqLeft, sup, pass, prev,
                 auto, ignoreAnswer, binaryAnswer, gitRepo, matchAnswer>>

\* getWorkspaceConfig of a getConfig under way: readFile delivers the file
\* as it is now.
GetConfigRead(r) ==
  /\ r.pc = "reading"
  /\ cfgOps' = [cfgOps EXCEPT !.reads = (@ \ {r}) \cup
                   {[r EXCEPT !.pc = "read", !.workspaceConfig = stored]}]
  /\ UNCHANGED <<files, localFs, gitignoreFile, remote, remoteAcct, remoteMode,
                 faultsLeft, stored, cachedConfig, smConfig, smOrg, smProject,
                 smPatterns, now, lastFailedSyncTime, reqLeft, sup, pass, prev,
                 auto, ignoreAnswer, binaryAnswer, gitRepo, matchAnswer>>

\* The getConfig under way continues after its read: it stores what it
\* read as the cached snapshot and returns it.
GetConfigReturn(r) ==
  /\ r.pc = "read"
  /\ LET config == Merged(r.sessionToken, r.workspaceConfig)
     IN /\ cachedConfig' = config
        /\ cfgOps' = [cfgOps EXCEPT
              !.reads = @ \ {r},
              !.last = [checked |-> r.quiet /\ r.epoch > 0
                                    /\ r.epoch = cfgOps.writes,
                        value |-> ConfigValues(config),
                        expected |-> ConfigValues(stored)]]
  /\ UNCHANGED <<files, localFs, gitignoreFile, remote, remoteAcct, remoteMode,
                 faultsLeft, stored, smConfig, smOrg, smProject,
                 smPatterns, now, lastFailedSyncTime, reqLeft, sup, pass, prev,
                 auto, ignoreAnswer, binaryAnswer, gitRepo, matchAnswer>>

\* saveWorkspaceConfig({autoSync: v}) up to its read of the current file.
SaveWorkspaceStart(v) ==
  /\ cfgOps.save.pc = "idle"
  /\ cfgOps.saves < MaxSaves
  /\ cfgOps' = [cfgOps EXCEPT
        !.saves = @ + 1,
        !.save = [pc |-> "merged",
                  newConfig |-> [stored EXCEPT !.autoSync = v]]]
  /\ UNCHANGED <<files, localFs, gitignoreFile, remote, remoteAcct, remoteMode,
                 faultsLeft, stored, cachedConfig, smConfig, smOrg, smProject,
                 smPatterns, now, lastFailedSyncTime, reqLeft, sup, pass, prev,
                 auto, ignoreAnswer, binaryAnswer, gitRepo, matchAnswer>>

\* writeFile of the save: the file holds newConfig, or the write fails and
\* the save throws with nothing written.
SaveWorkspaceWrite ==
  /\ cfgOps.save.pc = "merged"
  /\ \E ok \in BOOLEAN :
       IF ok
       THEN /\ stored' = [cfgOps.save.newConfig EXCEPT
                            !.sessionToken = stored.sessionToken,
                            !.fileExists = TRUE]
            /\ cfgOps' = [cfgOps EXCEPT !.writes = @ + 1,
                                        !.save = [pc |-> "written"]]
       ELSE /\ cfgOps' = [cfgOps EXCEPT !.save = [pc |-> "idle"]]
            /\ UNCHANGED stored
  /\ UNCHANGED <<files, localFs, gitignoreFile, remote, remoteAcct, remoteMode,
                 faultsLeft, cachedConfig, smConfig, smOrg, smProject,
                 smPatterns, now, lastFailedSyncTime, reqLeft, sup, pass, prev,
                 auto, ignoreAnswer, binaryAnswer, gitRepo, matchAnswer>>

\* The line GitManager keeps in .gitignore: .vscode/claudesync.json
ClaudeSyncIgnore ==
  [neg |-> FALSE, pattern |-> <<".vscode", "claudesync.json">>, hasDot |-> TRUE]

hasClaudeSyncIgnore(content) ==
  \E i \in 1..Len(content) : content[i] = ClaudeSyncIgnore

\* GitManager.ensureGitIgnore: the .gitignore it leaves behind when its
\* write succeeds. Outside a git repository, and when the line is there,
\* it writes nothing.
ensureGitIgnore(content) ==
  IF ~gitRepo THEN content
  ELSE IF hasClaudeSyncIgnore(content) THEN content
  ELSE Append(content, ClaudeSyncIgnore)

\* The rest of the save: ensureGitIgnore, then the cache is dropped. When
\* ensureGitIgnore throws (its write of .gitignore fails) the save throws
\* before it drops the cache. The addToGitignore setting is not read.
SaveWorkspaceEnd ==
  /\ cfgOps.save.pc = "written"
  /\ \E ok \in BOOLEAN :
       /\ ok \/ ensureGitIgnore(gitignoreFile) # gitignoreFile
       /\ cachedConfig' = IF ok THEN NoConfig ELSE cachedConfig
       /\ gitignoreFile' = IF ok THEN ensureGitIgnore(gitignoreFile)
                                 ELSE gitignoreFile
       /\ cfgOps' = [cfgOps EXCEPT !.save = [pc |-> "idle"],
                                   !.saved = IF ok THEN "ok" ELSE "failed"]
  /\ UNCHANGED <<files, localFs, remote, remoteAcct, remoteMode,
                 faultsLeft, stored, smConfig, smOrg, smProject,
                 smPatterns, now, lastFailedSyncTime, reqLeft, sup, pass, prev,
                 auto, ignoreAnswer, binaryAnswer, gitRepo, matchAnswer>>

\* The 'toggle gitignore' command: the setting is flipped; when it was
\* off, getConfig and then ensureGitIgnore follow.
ToggleGitignore ==
  /\ cfgOps.save.pc = "idle"
  /\ cfgOps.reads = {}
  /\ cfgOps.saves < MaxSaves
  /\ LET currentValue == stored.addToGitignore
         enabling == ~currentValue
     IN /\ stored' = [stored EXCEPT !.addToGitignore = ~currentValue]
        /\ cachedConfig' = IF enabling /\ ~cachedConfig.loaded
                           THEN Merged(stored.sessionToken, stored)
                           ELSE cachedConfig
        /\ \E ok \in BOOLEAN :
             /\ ok \/ (enabling /\ ensureGitIgnore(gitignoreFile) # gitignoreFile)
             /\ gitignoreFile' = IF enabling /\ ok
                                 THEN ensureGitIgnore(gitignoreFile)
                                 ELSE gitignoreFile
  /\ cfgOps' = [cfgOps EXCEPT !.saves = @ + 1, !.saved = "none"]
  /\ UNCHANGED <<files, localFs, remote, remoteAcct, remoteMode,
                 faultsLeft, smConfig, smOrg, smProject,
                 smPatterns, now, lastFailedSyncTime, reqLeft, sup, pass, prev,
                 auto, ignoreAnswer, binaryAnswer, gitRepo, matchAnswer>>

\* saveGlobalConfig({sessionToken: t}) up to its update of the settings.
SaveGlobalWrite(t) ==
  /\ cfgOps.save.pc = "idle"
  /\ cfgOps.saves < MaxSaves
  /\ stored' = [stored EXCEPT !.sessionToken = t]
  /\ cfgOps' = [cfgOps EXCEPT !.saves = @ + 1, !.writes = @ + 1,
                              !.save = [pc |-> "updated"]]
  /\ UNCHANGED <<files, localFs, gitignoreFile, remote, remoteAcct, remoteMode,
                 faultsLeft, cachedConfig, smConfig, smOrg, smProject,
                 smPatterns, now, lastFailedSyncTime, reqLeft, sup, pass, prev,
                 auto, ignoreAnswer, binaryAnswer, gitRepo, matchAnswer>>

\* The update is done: saveGlobalConfig drops the cache.
SaveGlobalEnd ==
  /\ cfgOps.save.pc = "updated"
  /\ cachedConfig' = NoConfig
  /\ cfgOps' = [cfgOps EXCEPT !.save = [pc |-> "idle"]]
  /\ UNCHANGED <<files, localFs, gitignoreFile, remote, remoteAcct, remoteMode,
                 faultsLeft, stored, smConfig, smOrg, smProject,
                 smPatterns, now, lastFailedSyncTime, reqLeft, sup, pass, prev,
                 auto, ignoreAnswer, binaryAnswer, gitRepo, matchAnswer>>

\* An activated extension with a saved configuration; getConfig calls and
\* saves come from commands and handlers in any order.
InitConfig ==
  /\ files = <<PathA>>
  /\ localFs = [x \in Paths |-> BytesA]
  /\ gitignoreFile \in {<<>>, <<ClaudeSyncIgnore>>}
  /\ gitRepo \in BOOLEAN
  /\ matchAnswer = NoMatch
  /\ remote = <<>>
  /\ remoteAcct = [org |-> TRUE, proj |-> TRUE]
  /\ remoteMode = "budget"
  /\ faultsLeft = 0
  /\ reqLeft = [p \in Procs |-> 0]
  /\ \E token \in BOOLEAN, exists \in BOOLEAN, on \in BOOLEAN,
        addToGitignore \in BOOLEAN :
       InitState([Config(token, exists, exists, TRUE) EXCEPT
                    !.autoSync = on, !.addToGitignore = addToGitignore])

NextConfig ==
  \/ ToggleGitignore
  \/ GetConfigCall
  \/ \E r \in cfgOps.reads : GetConfigRead(r)
  \/ \E r \in cfgOps.reads : GetConfigReturn(r)
  \/ \E v \in BOOLEAN : SaveWorkspaceStart(v)
  \/ SaveWorkspaceWrite
  \/ SaveWorkspaceEnd
  \/ \E t \in BOOLEAN : SaveGlobalWrite(t)
  \/ SaveGlobalEnd

SpecConfig == InitConfig /\ [][NextConfig]_vars

\* -------------------------------- configuration changes between passes
\* claudesync.configureCleanupRemote: the choice is saved (the save drops
\* the cache); the sync the command offers afterwards is a sync request.
ConfigureCleanupRemote(enableCleanup) ==
  /\ cfgOps.saves < MaxSaves
  /\ stored' = [stored EXCEPT !.cleanupRemoteFiles = enableCleanup,
                              !.fileExists = TRUE]
  /\ cachedConfig' = NoConfig
  /\ cfgOps' = [cfgOps EXCEPT !.saves = @ + 1, !.writes = @ + 1]
  /\ UNCHANGED <<files, localFs, gitignoreFile, remote, remoteAcct, remoteMode,
                 faultsLeft, smConfig, smOrg, smProject, smPatterns, now,
                 lastFailedSyncTime, reqLeft, sup, pass, prev, auto,
                 ignoreAnswer, binaryAnswer, gitRepo, matchAnswer>>

\* .vscode/claudesync.json is edited in the editor: its exclude patterns
\* become excludePatterns. Nothing of the extension has run yet.
EditConfigFile(excludePatterns) ==
  /\ cfgOps.saves < MaxSaves
  /\ stored.fileExists
  /\ stored' = [stored EXCEPT !.excludePatterns = excludePatterns]
  /\ cfgOps' = [cfgOps EXCEPT !.saves = @ + 1, !.writes = @ + 1]
  /\ UNCHANGED <<files, localFs, gitignoreFile, remote, remoteAcct, remoteMode,
                 faultsLeft, cachedConfig, smConfig, smOrg, smProject,
                 smPatterns, now, lastFailedSyncTime, reqLeft, sup, pass, prev,
                 auto, ignoreAnswer, binaryAnswer, gitRepo, matchAnswer>>

\* No run of syncFiles is under way.
NoRunUnderWay == \A p \in Procs : sup[p].pc = "idle"

\* One requester; a holds text or a NUL byte, d/a holds text; the store
\* holds an older a and a document b; the configuration is changed by the
\* command or in the editor at any moment, and configWatcher refreshes
\* some time after. A refresh replaces the SyncManager, and a pass under
\* way stays with the manager it was called on: refreshes are taken
\* between runs.
InitEdit ==
  /\ files = <<PathA, PathDA>>
  /\ \E content \in {BytesA, BytesNul} :
       localFs = [x \in Paths |-> IF x = PathA THEN content ELSE BytesA]
  /\ gitignoreFile = <<>>
  /\ gitRepo = FALSE
  /\ matchAnswer = NoMatch
  /\ remote = <<[uuid |-> 1, file_name |-> PathA, content |-> <<66>>],
                [uuid |-> 2, file_name |-> PathB, content |-> <<65>>]>>
  /\ remoteAcct = [org |-> TRUE, proj |-> TRUE]
  /\ remoteMode = "budget"
  /\ faultsLeft = MaxFaults
  /\ reqLeft = [p \in Procs |-> IF p = 1 THEN MaxRequests ELSE 0]
  /\ \E cleanup \in BOOLEAN : InitState(Config(TRUE, TRUE, TRUE, cleanup))

NextEdit ==
  \/ Next
  \/ \E enableCleanup \in BOOLEAN : ConfigureCleanupRemote(enableCleanup)
  \/ \E excludePatterns \in {{}, {PathB}, {PathDA}} : EditConfigFile(excludePatterns)
  \/ NoRunUnderWay /\ RefreshStart
  \/ NoRunUnderWay /\ RefreshDone

SpecEdit == InitEdit /\ [][NextEdit]_vars

\* VS Code starts with any stored configuration; the extension is
\* activated, and afterwards the configuration is changed and refreshed.
InitStartup ==
  /\ files = <<PathA>>
  /\ localFs = [x \in Paths |-> BytesA]
  /\ gitignoreFile = <<>>
  /\ gitRepo = FALSE
  /\ matchAnswer = NoMatch
  /\ remote = <<>>
  /\ remoteAcct = [org |-> TRUE, proj |-> TRUE]
  /\ remoteMode = "budget"
  /\ faultsLeft = 0
  /\ reqLeft = [p \in Procs |-> 0]
  /\ \E token \in BOOLEAN, exists \in BOOLEAN, on \in BOOLEAN :
       stored = [Config(token, exists, exists, TRUE) EXCEPT !.syncOnStartup = on]
  /\ cachedConfig = NoConfig
  /\ smConfig = NoConfig
  /\ smOrg = FALSE
  /\ smProject = FALSE
  /\ smPatterns = <<>>
  /\ now = StartTime
  /\ lastFailedSyncTime = 0
  /\ sup = [p \in Procs |-> IdleSup]
  /\ pass = [p \in Procs |-> IdlePass]
  /\ prev = NoPrev
  /\ auto = [IdleAuto EXCEPT !.refresh = "inactive"]
  /\ cfgOps = IdleCfg
  /\ ignoreAnswer = NoAnswer
  /\ binaryAnswer = NoClassification

NextStartup ==
  \/ Activate
  \/ \E excludePatterns \in {{}, {PathB}, {PathDA}} : EditConfigFile(excludePatterns)
  \/ \E enableCleanup \in BOOLEAN :
       auto.refresh # "inactive" /\ ConfigureCleanupRemote(enableCleanup)
  \/ RefreshStart
  \/ RefreshDone

SpecStartup == InitStartup /\ [][NextStartup]_vars

\* --------------------------------------- GitignoreManager: rules in order
MaxRules == 2

\* Path segments that hold a dot.
DottedNames == {"keep.txt", "other.txt"}

PathKeep == <<"build", "keep.txt">>
PathOther == <<"build", "other.txt">>
IgnorePaths == {PathKeep, PathOther, <<"src", "keep.txt">>}

\* A line of .gitignore: '!' or not, and the pattern; whether the pattern
\* holds a dot follows from its segments.
IgnoreLine(neg, pattern) ==
  [neg |-> neg, pattern |-> pattern,
   hasDot |-> \E i \in 1..Len(pattern) : pattern[i] \in DottedNames]

IgnoreLines ==
  {IgnoreLine(neg, pattern) :
     neg \in BOOLEAN,
     pattern \in {<<"build">>, <<"keep.txt">>, PathKeep, PathOther}}

\* The lines 'build/' and '!build/keep.txt'.
BuildThenKeep == <<IgnoreLine(FALSE, <<"build">>), IgnoreLine(TRUE, PathKeep)>>

\* The .gitignore files of up to n lines.
RECURSIVE IgnoreFiles(_)
IgnoreFiles(n) ==
  IF n = 0 THEN {<<>>}
  ELSE IgnoreFiles(n - 1) \cup
       {Append(f, l) : f \in {g \in IgnoreFiles(n - 1) : Len(g) = n - 1},
                       l \in IgnoreLines}

\* GitignoreManager.loadGitignore(workspaceFolder)
LoadGitignore ==
  /\ smPatterns' = loadGitignore(gitignoreFile)
  /\ UNCHANGED <<files, localFs, gitignoreFile, remote, remoteAcct, remoteMode,
                 faultsLeft, stored, cachedConfig, smConfig, smOrg, smProject,
                 now, lastFailedSyncTime, reqLeft, sup, pass, prev,
                 auto, cfgOps, ignoreAnswer, binaryAnswer, gitRepo, matchAnswer>>

\* GitignoreManager.shouldIgnore(filePath)
ShouldIgnore(filePath) ==
  /\ ignoreAnswer' = [asked |-> TRUE, filePath |-> filePath,
                      patterns |-> smPatterns,
                      result |-> shouldIgnore(smPatterns, filePath)]
  /\ UNCHANGED <<files, localFs, gitignoreFile, remote, remoteAcct, remoteMode,
                 faultsLeft, stored, cachedConfig, smConfig, smOrg, smProject,
                 smPatterns, now, lastFailedSyncTime, reqLeft, sup, pass, prev,
                 auto, cfgOps, binaryAnswer, gitRepo, matchAnswer>>

\* A workspace with any .gitignore of up to MaxRules lines; the rules are
\* loaded and paths are asked about in any order.
InitIgnore ==
  /\ files = <<PathA>>
  /\ localFs = [x \in Paths |-> BytesA]
  /\ gitignoreFile \in IgnoreFiles(MaxRules)
  /\ gitRepo = FALSE
  /\ matchAnswer = NoMatch
  /\ remote = <<>>
  /\ remoteAcct = [org |-> TRUE, proj |-> TRUE]
  /\ remoteMode = "budget"
  /\ faultsLeft = 0
  /\ reqLeft = [p \in Procs |-> 0]
  /\ InitState(Config(TRUE, TRUE, TRUE, TRUE))

NextIgnore ==
  \/ LoadGitignore
  \/ \E filePath \in IgnorePaths : ShouldIgnore(filePath)

SpecIgnore == InitIgnore /\ [][NextIgnore]_vars

\* ------------------- SyncManager.isBinaryContent (part_001): three windows
WindowBytes == 512

\* The six signatures: PDF, PNG, GIF, JPEG, ZIP, GZIP.
signatures == {<<37, 80, 68, 70>>, <<137, 80, 78, 71>>, <<71, 73, 70, 56>>,
               <<255, 216, 255>>, <<80, 75, 3, 4>>, <<31, 139, 8>>}

\* content.slice(from, to) with 0-based from and exclusive to.
Slice(content, from, to) ==
  [i \in 1..(Min(to, Len(content)) - from) |-> content[from + i]]

\* The windows sampled: start, middle and end.
samples(content) ==
  {Slice(content, 0, WindowBytes)}
  \cup (IF Len(content) > WindowBytes * 2
        THEN LET midStart == (Len(content) \div 2) - (WindowBytes \div 2)
             IN {Slice(content, midStart, midStart + WindowBytes)}
        ELSE {})
  \cup (IF Len(content) > WindowBytes
        THEN {Slice(content, Len(content) - WindowBytes, Len(content))}
        ELSE {})

NonPrintable(byte) == (byte < 32 /\ byte \notin {9, 10, 13}) \/ byte = 127

\* (byte & 0xc0) === 0x80
Continuation(byte) == byte >= 128 /\ byte < 192

nullCount(sample) == Cardinality({i \in 1..Len(sample) : sample[i] = 0})

\* nonPrintableCount at the end of the loop: one up per non-printable
\* byte, one down per continuation byte.
nonPrintableCount(sample) ==
  Cardinality({i \in 1..Len(sample) : NonPrintable(sample[i])})
  - Cardinality({i \in 1..Len(sample) : Continuation(sample[i])})

\* maxConsecutiveNonPrintable > n
RunLongerThan(sample, n) ==
  \E i \in 1..(Len(sample) - n) : \A k \in 0..n : NonPrintable(sample[i + k])

\* What the loop over one sample and the test after it decide.
SampleIsBinary(sample) ==
  \/ nullCount(sample) > 1
  \/ nonPrintableCount(sample) * 100 > 8 * Len(sample)
  \/ RunLongerThan(sample, 4)
  \/ (Len(sample) > 20 /\ nullCount(sample) * 100 > Len(sample))

isBinaryContentSampled(content) ==
  \/ \E sig \in signatures : IsPrefix(sig, content)
  \/ \E sample \in samples(content) : SampleIsBinary(sample)

\* Buffers: a head, printable filler, a middle part, filler and a tail.
Filler(n) == [i \in 1..n |-> 65]

Heads == signatures \cup {<<>>, <<137, 80, 78>>, <<0>>, <<0, 0>>,
                          <<1, 1, 1, 1>>, <<1, 1, 1, 1, 1>>,
                          <<1, 130, 1, 130, 1, 130>>, <<1, 9, 1, 9, 1, 9>>}
Middles == {<<>>, <<0, 0>>, <<1, 1, 1, 1, 1>>}
Tails == {<<>>, <<0>>, <<0, 0>>}
FillerLengths == {0, 8, 45, 500, 1000}

Buffers ==
  {head \o Filler(n) \o middle \o Filler(n) \o tail :
     head \in Heads, n \in FillerLengths, middle \in Middles, tail \in Tails}
  \cup {Filler(1000), <<137, 80, 78, 71>> \o Filler(16)}

\* isBinaryContent(content) is called with the bytes of the file a.
IsBinaryContent ==
  /\ binaryAnswer' = [asked |-> TRUE, content |-> localFs[PathA],
                      result |-> isBinaryContentSampled(localFs[PathA])]
  /\ UNCHANGED <<files, localFs, gitignoreFile, remote, remoteAcct, remoteMode,
                 faultsLeft, stored, cachedConfig, smConfig, smOrg, smProject,
                 smPatterns, now, lastFailedSyncTime, reqLeft, sup, pass, prev,
                 auto, cfgOps, ignoreAnswer, gitRepo, matchAnswer>>

\* The file a holds any of the buffers.
InitBinary ==
  /\ files = <<PathA>>
  /\ \E content \in Buffers :
       localFs = [x \in Paths |-> IF x = PathA THEN content ELSE BytesA]
  /\ gitignoreFile = <<>>
  /\ gitRepo = FALSE
  /\ matchAnswer = NoMatch
  /\ remote = <<>>
  /\ remoteAcct = [org |-> TRUE, proj |-> TRUE]
  /\ remoteMode = "budget"
  /\ faultsLeft = 0
  /\ reqLeft = [p \in Procs |-> 0]
  /\ InitState(Config(TRUE, TRUE, TRUE, TRUE))

NextBinary == IsBinaryContent

SpecBinary == InitBinary /\ [][NextBinary]_vars

\* ------------------------------- GitignoreManager.isMatch on characters
\* A string is the sequence of its characters.
RegexSpecials == {".", "+", "^", "$", "{", "}", "(", ")", "|", "[", "]", "\\"}

NonSlashClass == <<"[", "^", "/", "]">>

RECURSIVE escapeSpecials(_)
\* .replace(/[.+^${}()|[\]\\]/g, "\\$&")
escapeSpecials(str) ==
  IF str = <<>> THEN <<>>
  ELSE (IF Head(str) \in RegexSpecials THEN <<"\\", Head(str)>>
        ELSE <<Head(str)>>) \o escapeSpecials(Tail(str))

RECURSIVE replaceStarStar(_)
\* .replace(/\*\*/g, ".*")
replaceStarStar(str) ==
  IF str = <<>> THEN <<>>
  ELSE IF Len(str) >= 2 /\ str[1] = "*" /\ str[2] = "*"
  THEN <<".", "*">> \o replaceStarStar(SubSeq(str, 3, Len(str)))
  ELSE <<Head(str)>> \o replaceStarStar(Tail(str))

RECURSIVE replaceChar(_, _, _)
\* .replace(/c/g, by) for one character c
replaceChar(str, c, by) ==
  IF str = <<>> THEN <<>>
  ELSE (IF Head(str) = c THEN by ELSE <<Head(str)>>)
       \o replaceChar(Tail(str), c, by)

\* The four replaces in their order: each works on the output of the one
\* before, the '*' of a '.*' included.
convertGlobToRegex(pattern) ==
  replaceChar(
    replaceChar(replaceStarStar(escapeSpecials(pattern)),
                "*", NonSlashClass \o <<"*">>),
    "?", NonSlashClass)

RECURSIVE stripLeading(_)
stripLeading(str) ==
  IF str # <<>> /\ Head(str) = "/" THEN stripLeading(Tail(str)) ELSE str

RECURSIVE stripTrailing(_)
stripTrailing(str) ==
  IF str # <<>> /\ str[Len(str)] = "/"
  THEN stripTrailing(SubSeq(str, 1, Len(str) - 1)) ELSE str

\* path.replace(/\\/g, "/").replace(/^\/+|\/+$/g, "")
normalizePath(path) ==
  stripTrailing(stripLeading(replaceChar(path, "\\", <<"/">>)))

RECURSIVE parseRegex(_)
\* The regular expression a source of escaped characters, '.', '[^/]'
\* and '*' denotes: its atoms in order, each starred or not.
parseRegex(source) ==
  IF source = <<>> THEN <<>>
  ELSE LET n == IF source[1] = "\\" THEN 2
                ELSE IF source[1] = "[" THEN 4 ELSE 1
           atom == IF source[1] = "\\" THEN [kind |-> "char", ch |-> source[2]]
                   ELSE IF source[1] = "[" THEN [kind |-> "nonslash", ch |-> "/"]
                   ELSE IF source[1] = "." THEN [kind |-> "any", ch |-> "."]
                   ELSE [kind |-> "char", ch |-> source[1]]
           star == Len(source) > n /\ source[n + 1] = "*"
       IN <<[atom |-> atom, star |-> star]>>
          \o parseRegex(SubSeq(source, n + (IF star THEN 2 ELSE 1), Len(source)))

Fits(atom, c) ==
  IF atom.kind = "any" THEN TRUE
  ELSE IF atom.kind = "nonslash" THEN c # "/"
  ELSE c = atom.ch

RECURSIVE Ends(_, _, _, _)
\* The positions of str at which a match of regex[k..] begun at j can end.
Ends(regex, k, str, j) ==
  IF k > Len(regex) THEN {j}
  ELSE LET fits == j <= Len(str) /\ Fits(regex[k].atom, str[j])
       IN IF regex[k].star
          THEN Ends(regex, k + 1, str, j)
               \cup (IF fits THEN Ends(regex, k, str, j + 1) ELSE {})
          ELSE IF fits THEN Ends(regex, k + 1, str, j + 1) ELSE {}

\* new RegExp(`^${source}$`).test(str)
TestWhole(regex, str) == (Len(str) + 1) \in Ends(regex, 1, str, 1)

\* new RegExp(`^${source}(/.*)?$`).test(str)
TestBeneath(regex, str) ==
  \E e \in Ends(regex, 1, str, 1) : e = Len(str) + 1 \/ str[e] = "/"

\* new RegExp(`(^|/)${source}(/|$)`).test(str)
TestSegment(regex, str) ==
  \E j \in 1..(Len(str) + 1) :
    /\ j = 1 \/ str[j - 1] = "/"
    /\ \E e \in Ends(regex, 1, str, j) : e = Len(str) + 1 \/ str[e] = "/"

includes(str, c) == \E i \in 1..Len(str) : str[i] = c

RECURSIVE basename(_)
\* filePath.split("/").pop()
basename(filePath) ==
  IF includes(filePath, "/") THEN basename(Tail(filePath)) ELSE filePath

endsWith(str, suffix) ==
  /\ Len(str) >= Len(suffix)
  /\ SubSeq(str, Len(str) - Len(suffix) + 1, Len(str)) = suffix

\* GitignoreManager.isMatch(pattern, filePath, isDirectory)
GitignoreManager_isMatch(pattern0, filePath0, isDirectory) ==
  LET pattern == normalizePath(pattern0)
      filePath == normalizePath(filePath0)
      regex == parseRegex(convertGlobToRegex(pattern))
  IN IF isDirectory /\ ~includes(pattern, "/")
     THEN TestSegment(regex, filePath)
     ELSE IF ~isDirectory /\ ~includes(pattern, "/")
     THEN TestWhole(regex, basename(filePath))
     ELSE IF isDirectory \/ endsWith(pattern, <<"/", "*", "*">>)
     THEN TestBeneath(regex, filePath)
     ELSE TestWhole(regex, filePath)

GlobPatterns ==
  {<<"*", "*", "/", "*", ".", "p", "y", "c">>,
   <<"n", "o", "d", "e", "_", "m", "o", "d", "u", "l", "e", "s", "/", "*", "*">>,
   <<"*", ".", "p", "y", "c">>,
   <<"s", "r", "c", "/", "?", ".", "j", "s">>,
   <<"s", "r", "c", "/", "*", ".", "j", "s">>,
   <<"b", "u", "i", "l", "d">>,
   <<"n", "o", "d", "e", "_", "m", "o", "d", "u", "l", "e", "s">>,
   <<"s", "r", "c", "/", "a", ".", "j", "s">>}

GlobPaths ==
  {<<"x", ".", "p", "y", "c">>,
   <<"a", "/", "x", ".", "p", "y", "c">>,
   <<"a", "/", "b", "/", "x", ".", "p", "y", "c">>,
   <<"n", "o", "d", "e", "_", "m", "o", "d", "u", "l", "e", "s", "/", "a", ".", "j", "s">>,
   <<"n", "o", "d", "e", "_", "m", "o", "d", "u", "l", "e", "s", "/", "a", "/", "b", ".", "j", "s">>,
   <<"s", "r", "c", "/", "a", ".", "j", "s">>,
   <<"s", "r", "c", "/", "a", "b", ".", "j", "s">>,
   <<"s", "r", "c", "/", "a", "/", "b", ".", "j", "s">>,
   <<"b", "u", "i", "l", "d", "/", "x", ".", "p", "y", "c">>}

\* isMatch is called.
IsMatchCall(pattern, filePath, isDirectory) ==
  /\ ~matchAnswer.asked
  /\ matchAnswer' = [asked |-> TRUE, pattern |-> pattern,
                      filePath |-> filePath, isDirectory |-> isDirectory,
                      result |-> GitignoreManager_isMatch(pattern, filePath,
                                                          isDirectory)]
  /\ UNCHANGED <<files, localFs, gitignoreFile, remote, remoteAcct, remoteMode,
                 faultsLeft, stored, cachedConfig, smConfig, smOrg, smProject,
                 smPatterns, now, lastFailedSyncTime, reqLeft, sup, pass, prev,
                 auto, cfgOps, ignoreAnswer, binaryAnswer, gitRepo>>

\* The answer is taken and the next call can be made.
IsMatchReturn ==
  /\ matchAnswer.asked
  /\ matchAnswer' = NoMatch
  /\ UNCHANGED <<files, localFs, gitignoreFile, remote, remoteAcct, remoteMode,
                 faultsLeft, stored, cachedConfig, smConfig, smOrg, smProject,
                 smPatterns, now, lastFailedSyncTime, reqLeft, sup, pass, prev,
                 auto, cfgOps, ignoreAnswer, binaryAnswer, gitRepo>>

InitGlob ==
  /\ files = <<PathA>>
  /\ localFs = [x \in Paths |-> BytesA]
  /\ gitignoreFile = <<>>
  /\ gitRepo = FALSE
  /\ matchAnswer = NoMatch
  /\ remote = <<>>
  /\ remoteAcct = [org |-> TRUE, proj |-> TRUE]
  /\ remoteMode = "budget"
  /\ faultsLeft = 0
  /\ reqLeft = [p \in Procs |-> 0]
  /\ InitState(Config(TRUE, TRUE, TRUE, TRUE))

NextGlob ==
  \/ \E pattern \in GlobPatterns, filePath \in GlobPaths,
         isDirectory \in BOOLEAN :
       IsMatchCall(pattern, filePath, isDirectory)
  \/ IsMatchReturn

SpecGlob == InitGlob /\ [][NextGlob]_vars

\* ------------------------------------------------ the supervisor's claims
\* The run of requester p is over: decided, or already reported.
RunOver(p) ==
  \/ sup[p].pc = "finish"
  \/ sup[p].pc = "idle" /\ sup[p].invocations > 0

Reported(p) == sup[p].pc = "idle" /\ sup[p].invocations > 0

LastMessage(p) == sup[p].ui[Len(sup[p].ui)]

\* C6 (as claimed): when every remote call fails with the authentication
\* error, the supervisor invokes the pass once, never sleeps, and does not
\* report the failure it reports for transient errors.
C6_AuthShortCircuit ==
  \A p \in Procs :
    (remoteMode = "auth" /\ stored.hasIds)
    => /\ sup[p].invocations <= 1
       /\ sup[p].sleeps = 0
       /\ Reported(p) => LastMessage(p) # TerminalError

\* C7: when a run ends in success after N - 1 failed attempts, the pass was
\* invoked N <= maxRetries times with a sleep before each attempt but the
\* first, the last attempt is the one that returned success, and the count
\* the success message reports is the number of documents attempt N
\* created; once reported, the message is an information message and the
\* run started no cooldown.
C7_RetryToSuccess ==
  \A p \in Procs :
    (RunOver(p) /\ sup[p].success)
    => /\ sup[p].invocations = sup[p].attempt + 1
       /\ sup[p].invocations <= maxRetries
       /\ sup[p].sleeps = sup[p].attempt
       /\ pass[p].pc = "idle" /\ pass[p].result.success
       /\ sup[p].lastResult = pass[p].result
       /\ ReportedSynced(sup[p]) = OkCreates(pass[p])
       /\ Reported(p)
          => /\ LastMessage(p) \in {"info: all files were up to date",
                                    "info: Successfully synced"}
             /\ (LastMessage(p) = "info: all files were up to date")
                <=> (OkCreates(pass[p]) = 0)

\* C7 witness: success was reported on the third attempt, the failed
\* attempts had created a document, and the report counts one document.
C7_Witness ==
  \E p \in Procs :
    /\ Reported(p) /\ sup[p].success
    /\ sup[p].attempt = 2
    /\ ReportedSynced(sup[p]) = 1
    /\ sup[p].creates = 2

\* A run that ended without success and not by the precondition failure.
Exhausted(p) ==
  /\ RunOver(p) /\ ~sup[p].success
  /\ sup[p].lastResult.message # NotInitializedMessage

C8_Counts ==
  \A p \in Procs :
    /\ sup[p].invocations <= maxRetries
    /\ sup[p].attempt <= maxRetries
    /\ sup[p].pc = "wait" => sup[p].sleeps = sup[p].invocations - 1
    /\ sup[p].pc = "wait" => now = StartTime + sup[p].sleeps * BackoffMs
    /\ Exhausted(p)
       => /\ sup[p].invocations = maxRetries
          /\ sup[p].attempt = maxRetries
          /\ sup[p].sleeps = maxRetries - 1
    /\ (Exhausted(p) /\ Reported(p))
       => /\ lastFailedSyncTime = now
          /\ LastMessage(p) = TerminalError

\* C8: the pass is never invoked more than maxRetries times; every attempt
\* but the first comes after one backoff sleep; a run in which every
\* attempt failed (not by the precondition failure) made exactly
\* maxRetries attempts and maxRetries - 1 sleeps, then set
\* lastFailedSyncTime to the current time and showed the terminal error;
\* and every run that starts ends.
C8_BoundedRetry ==
  /\ []C8_Counts
  /\ \A p \in Procs : (sup[p].pc # "idle") ~> (sup[p].pc = "idle")

\* C8 witness: a run of maxRetries failed attempts (transient failures)
\* has been reported.
C8_Witness ==
  \E p \in Procs :
    /\ remoteMode = "flaky"
    /\ Exhausted(p) /\ Reported(p)
    /\ sup[p].invocations = maxRetries
    /\ lastFailedSyncTime = StartTime + (maxRetries - 1) * BackoffMs

\* C9: when a pass returns the 'Project not initialized' failure, the
\* supervisor leaves the loop at once: the attempt counter and the number
\* of sleeps are as before that attempt, no further attempt follows, and
\* the 'Initialize Project' prompt has been shown.
C9_PreconditionFailure ==
  \A p \in Procs :
    (/\ sup[p].invocations > 0
     /\ sup[p].lastResult.message = NotInitializedMessage)
    => /\ sup[p].pc \in {"finish", "idle"}
       /\ ~sup[p].success
       /\ sup[p].attempt = sup[p].invocations - 1
       /\ sup[p].sleeps = sup[p].invocations - 1
       /\ sup[p].ui[1] = InitializePrompt
       /\ pass[p].log = <<>>

\* C9 witness: a run ended by the precondition failure after its only
\* attempt.
C9_Witness ==
  \E p \in Procs :
    /\ Reported(p)
    /\ sup[p].lastResult.message = NotInitializedMessage
    /\ ~stored.hasIds
    /\ sup[p].invocations = 1 /\ sup[p].attempt = 0

\* C10 (as claimed): at most one supervisor run is in flight, and at most
\* one pass.
C10_Serialized ==
  /\ Cardinality({p \in Procs : sup[p].pc # "idle"}) <= 1
  /\ Cardinality({p \in Procs : pass[p].pc \notin {"idle", "ret"}}) <= 1

\* The step is a sync request of p.
IsRequest(p) == sup[p].pc = "idle" /\ reqLeft'[p] = reqLeft[p] - 1

\* The time since the last run ended without success is below the window.
SinceFailureBelow(ms) == prev.failedAt > 0 /\ now - prev.failedAt < ms

C11_Request(p) ==
  /\ SinceFailureBelow(SYNC_COOLDOWN_MS)
     => /\ sup'[p].pc = "idle" /\ sup'[p].invocations = 0
        /\ UNCHANGED <<pass, remote>>
  /\ ~SinceFailureBelow(SYNC_COOLDOWN_MS)
     => /\ sup'[p].ui # <<"log: in cooldown">>
        /\ (getConfig.sessionToken /\ isProjectInitialized /\ Len(files) > 0)
           => sup'[p].pc = "loop"

\* C11: a sync request made less than SYNC_COOLDOWN_MS after the last run
\* ended without success returns at once: the supervisor stays idle, no
\* pass is invoked and the store is not called; a request made
\* SYNC_COOLDOWN_MS or more after it (or with no failed run before) is not
\* answered by the cooldown, and starts a run when the other guards pass.
C11_CooldownSuppression ==
  [][\A p \in Procs : IsRequest(p) => C11_Request(p)]_vars

\* C11 witness: a request made exactly SYNC_COOLDOWN_MS after a failed run
\* has started a run, after an earlier request was used up.
C11_Witness ==
  \E p \in Procs :
    /\ sup[p].pc = "loop" /\ sup[p].invocations = 0
    /\ prev.failedAt > 0 /\ now - prev.failedAt = SYNC_COOLDOWN_MS
    /\ reqLeft[p] = 0

\* C12 (as claimed): lastFailedSyncTime is set only by a run that has used
\* all maxRetries attempts.
C12_CooldownOnlyAfterExhaustion ==
  lastFailedSyncTime # 0 => \E p \in Procs : sup[p].attempt = maxRetries

\* C13 (as claimed): while every change event has arrived before any timer
\* fired, the timer callbacks have called syncFiles at most once.
C13_BurstOnePass == auto.burst => Len(auto.calls) <= 1

\* The calls the pass has issued after cancellation was requested.
AfterCancel(pr) == (pr.cancelLog + 1)..Len(pr.log)

\* Cancellation was requested while a file was between its lookup and
\* the end of its upload.
MidFile(pr) == pr.cancelPc \in {"del", "up"}

\* The files processed when the loop sees the request: those done when
\* it was made and the one under way.
Applied(pr) == pr.cancelAt + (IF MidFile(pr) THEN 1 ELSE 0)

DeleteBeforeCreate(pr) ==
  \A k \in CallsOf(pr, {"upload"}) :
    LET m == findExisting(pr.existingFiles, pr.log[k].name)
    IN m # 0
       => /\ k > 1
          /\ pr.log[k - 1].op = "delete"
          /\ pr.log[k - 1].outcome = "ok"
          /\ pr.log[k - 1].uuid = pr.existingFiles[m].uuid
          /\ pr.log[k - 1].name = pr.log[k].name

\* A delete of the apply loop that failed is the last call of the pass.
FailedDeleteEndsPass(pr) ==
  \A k \in CallsOf(pr, {"delete"}) : pr.log[k].outcome # "ok" => k = Len(pr.log)

\* No create of a name comes before a delete of that name's old document.
NoCreateBeforeDelete(pr) ==
  \A k, m \in 1..Len(pr.log) :
    (pr.log[k].op = "upload" /\ pr.log[m].op = "delete"
     /\ pr.log[k].name = pr.log[m].name) => m < k

\* C15 (as claimed): in every pass the create of an updated file directly
\* follows the successful delete of its matched document, a failed delete
\* is followed by no create, and no create of a name precedes a delete of
\* that name's old document.
C15_UpdateOrdering ==
  \A p \in Procs :
    /\ DeleteBeforeCreate(pass[p])
    /\ FailedDeleteEndsPass(pass[p])
    /\ NoCreateBeforeDelete(pass[p])

\* C16 (as claimed): a pass that finds no eligible candidate returns the
\* failure 'No valid files to sync' and has sent no request to the store.
C16_EmptyEligibleSet ==
  \A p \in Procs :
    (pass[p].pc = "ret" /\ Prepared(pass[p]) /\ EligiblePaths(pass[p]) = {})
    => /\ ~pass[p].result.success
       /\ pass[p].result.message = "No valid files to sync"
       /\ pass[p].log = <<>>

\* The apply loop has just counted the candidate at pass p's position as
\* unchanged.
SkipsCandidate(p) ==
  /\ pass[p].pc = "apply"
  /\ pass'[p].skipped = pass[p].skipped + 1

\* The remote content the candidate at pass p's position was compared with.
ComparedContent(pr) ==
  pr.existingFiles[findExisting(pr.existingFiles, pr.fileContents[pr.i].path)].content

\* C17 (as claimed): a candidate is counted as unchanged only when its
\* content is the content of the remote document it was matched with; the
\* conversion of the strings to bytes never makes two different contents
\* compare equal.
C17_FingerprintOverContent ==
  [][\A p \in Procs :
       SkipsCandidate(p)
       => ComparedContent(pass[p]) = pass[p].fileContents[pass[p].i].content]_vars

\* C18 (as claimed): a getConfig call that starts after a save has
\* written the store and ended, with no write since, returns the stored
\* values.
C18_CacheCoherence ==
  cfgOps.last.checked => cfgOps.last.value = cfgOps.last.expected

\* The rules of patterns that match filePath, by position.
MatchingRules(patterns, filePath) ==
  {k \in 1..Len(patterns) :
     isMatch(patterns[k].pattern, filePath, patterns[k].isDirectory)}

\* The last matching rule is a positive one.
LastMatchIgnores(patterns, filePath) ==
  LET M == MatchingRules(patterns, filePath)
  IN M # {} /\ ~patterns[CHOOSE k \in M : \A n \in M : n <= k].neg

\* C19: shouldIgnore answers with the polarity of the last rule, in file
\* order, that matches the path (not ignored when none matches); with the
\* rules 'build/' then '!build/keep.txt', build/keep.txt is not ignored and
\* build/other.txt is ignored.
C19_LastMatchWins ==
  ignoreAnswer.asked
  => /\ ignoreAnswer.result
          = LastMatchIgnores(ignoreAnswer.patterns, ignoreAnswer.filePath)
     /\ ignoreAnswer.patterns = loadGitignore(BuildThenKeep)
        => /\ ignoreAnswer.filePath = PathKeep => ~ignoreAnswer.result
           /\ ignoreAnswer.filePath = PathOther => ignoreAnswer.result

\* With the rules 'build/' then '!build/keep.txt' loaded, build/keep.txt
\* was answered not ignored.
C19_Witness ==
  /\ ignoreAnswer.patterns = loadGitignore(BuildThenKeep)
  /\ ignoreAnswer.asked
  /\ ignoreAnswer.filePath = PathKeep
  /\ ~ignoreAnswer.result

\* A window of the buffer as the claim classifies it: more than one null
\* byte, non-printable bytes less continuation bytes above 8 % of the
\* window, or a run of more than 4 non-printable bytes.
ClaimedWindowBinary(sample) ==
  \/ nullCount(sample) > 1
  \/ nonPrintableCount(sample) * 100 > 8 * Len(sample)
  \/ RunLongerThan(sample, 4)

ClaimedBinary(content) ==
  \/ \E sig \in signatures : IsPrefix(sig, content)
  \/ \E sample \in samples(content) : ClaimedWindowBinary(sample)

\* C20 (as claimed): isBinaryContent answers true exactly for a buffer
\* that starts with one of the six signatures or has a window with more
\* than one null byte, more than 8 % non-printable bytes (continuation
\* bytes subtracted) or a run of more than 4 non-printable bytes; a buffer
\* starting with the PNG signature is binary and 1000 printable bytes are
\* text.
C20_BinaryClassification ==
  binaryAnswer.asked
  => /\ binaryAnswer.result = ClaimedBinary(binaryAnswer.content)
     /\ IsPrefix(<<137, 80, 78, 71>>, binaryAnswer.content) => binaryAnswer.result
     /\ binaryAnswer.content = Filler(1000) => ~binaryAnswer.result

\* The paths of the files the pass handed to its apply loop.
PreparedPaths(pr) == {pr.fileContents[k].path : k \in 1..Len(pr.fileContents)}

\* A create of path succeeded in the pass.
Uploaded(pr, path) ==
  \E k \in 1..Len(pr.log) :
    pr.log[k].op = "upload" /\ pr.log[k].name = path /\ pr.log[k].outcome = "ok"

\* A create of path was sent in the pass.
UploadSent(pr, path) ==
  \E k \in 1..Len(pr.log) : pr.log[k].op = "upload" /\ pr.log[k].name = path

\* The listing of the pass holds a document of path with the fingerprint
\* of the local file.
FingerprintMatches(pr, path) ==
  LET k == findExisting(pr.existingFiles, path)
  IN /\ k # 0
     /\ computeSHA256Hash(pr.existingFiles[k].content)
          = computeSHA256Hash(TextDecode(localFs[path]))

\* A candidate that is neither excluded nor binary.
TextCandidate(pr, path) ==
  /\ path \in Range(files)
  /\ ~isExcluded(pr.startConfig, loadGitignore(gitignoreFile), path)
  /\ ~isBinaryContent(localFs[path])

\* C21: a text candidate of exactly maxFileSize bytes is handed to the
\* apply loop, and a pass that ends with success and was not cancelled has
\* created its document or found its fingerprint unchanged; a text
\* candidate of maxFileSize + 1 bytes is dropped and no create is ever sent
\* for it.
C21_SizeBoundary ==
  \A p \in Procs : \A path \in Paths :
    LET pr == pass[p]
    IN (Prepared(pr) /\ TextCandidate(pr, path))
       => /\ Len(localFs[path]) = pr.startConfig.maxFileSize
             => /\ path \in PreparedPaths(pr)
                /\ (pr.pc = "ret" /\ pr.result.success /\ ~pr.cancelled)
                   => (Uploaded(pr, path) \/ FingerprintMatches(pr, path))
          /\ Len(localFs[path]) = pr.startConfig.maxFileSize + 1
             => /\ path \notin PreparedPaths(pr)
                /\ ~UploadSent(pr, path)

\* A pass uploaded a file of exactly maxFileSize bytes and ended with
\* success.
C21_Witness ==
  \E p \in Procs : \E path \in Paths :
    /\ pass[p].pc = "ret" /\ pass[p].result.success /\ ~pass[p].cancelled
    /\ TextCandidate(pass[p], path)
    /\ Len(localFs[path]) = pass[p].startConfig.maxFileSize
    /\ Uploaded(pass[p], path)

\* Pass p takes its prepare step.
Prepares(p) == pass[p].pc = "prepare" /\ pass'[p].pc # "prepare"

\* C23 (as claimed): the exclude patterns, maxFileSize and
\* cleanupRemoteFiles a pass works with are the persisted ones at the moment
\* the pass was called.
C23_SnapshotPerPass ==
  \A p \in Procs :
    Prepared(pass[p])
    => /\ pass[p].startConfig.excludePatterns = pass[p].persisted.excludePatterns
       /\ pass[p].startConfig.maxFileSize = pass[p].persisted.maxFileSize
       /\ pass[p].startConfig.cleanupRemoteFiles
            = pass[p].persisted.cleanupRemoteFiles

\* The candidates pass p classifies as binary in its prepare step.
ClassifiedBinary(p) ==
  binaryFilesOf(files, smConfig, loadGitignore(gitignoreFile))

\* C22 (as claimed), the pass that classifies: its prepare step leaves the
\* persisted exclude patterns holding the patterns persisted before and the
\* binary paths, and the pass never sends a create for a binary path.
BinaryPersisted ==
  \A p \in Procs :
    /\ (Prepares(p) /\ ClassifiedBinary(p) # {})
       => (stored.excludePatterns \cup ClassifiedBinary(p))
            \subseteq stored'.excludePatterns
    /\ \A path \in pass[p].binaryFiles : ~UploadSent(pass[p], path)

\* C22 (as claimed), later passes: a candidate an earlier pass classified
\* as binary, and whose pattern is still persisted, is excluded in the
\* prepare step and so is not read.
BinarySkippedLater ==
  \A p \in Procs :
    Prepares(p)
    => \A path \in Range(files) :
         (prev.valid /\ path \in prev.binaryFiles
          /\ path \in stored.excludePatterns)
         => isExcluded(smConfig, loadGitignore(gitignoreFile), path)

C22_BinaryExclusionPersists == [][BinaryPersisted /\ BinarySkippedLater]_vars

\* The cleanup deletes of the pass that failed, and those that succeeded.
CleanupFailures(pr) == {k \in CallsOf(pr, {"cleanup"}) : pr.log[k].outcome # "ok"}
CleanupSuccesses(pr) == {k \in CallsOf(pr, {"cleanup"}) : pr.log[k].outcome = "ok"}

\* C24: a pass that has entered its cleanup phase sends one delete for
\* each document to clean up, whatever the outcome of the earlier ones,
\* returns success, and reports as deletedFiles the number of cleanup
\* deletes that succeeded.
C24_BestEffortCleanup ==
  \A p \in Procs :
    LET pr == pass[p]
    IN /\ pr.pc = "cleanup"
          => /\ Cardinality(CallsOf(pr, {"cleanup"})) = pr.j - 1
             /\ pr.j <= Len(pr.filesToDelete)
       /\ (pr.pc = "ret" /\ CallsOf(pr, {"cleanup"}) # {})
          => /\ pr.result.success
             /\ Cardinality(CallsOf(pr, {"cleanup"})) = Len(pr.filesToDelete)
             /\ \A k \in 1..Len(pr.filesToDelete) :
                  \E c \in CallsOf(pr, {"cleanup"}) :
                    pr.log[c].uuid = pr.filesToDelete[k].uuid
             /\ pr.result.deletedFiles = Cardinality(CleanupSuccesses(pr))

\* A pass returned after a cleanup delete that failed and a later one that
\* succeeded.
C24_Witness ==
  \E p \in Procs :
    /\ pass[p].pc = "ret"
    /\ \E k \in CleanupFailures(pass[p]) : \E n \in CleanupSuccesses(pass[p]) : k < n
    /\ pass[p].result.deletedFiles = 1

\* C25 (as claimed): the activation of an initialized project with a
\* session token and syncOnStartup enabled runs the workspace sync once, and
\* no later step runs it again.
C25_StartupSyncOnce ==
  [][/\ (auto.refresh = "inactive" /\ auto'.refresh # "inactive"
         /\ stored.fileExists /\ stored.sessionToken /\ stored.syncOnStartup)
        => auto'.startupSyncs = 1
     /\ auto.refresh # "inactive" => auto'.startupSyncs = auto.startupSyncs]_vars

\* C26: the addToGitignore option controls .gitignore management: a save of
\* the workspace configuration made while the option is disabled leaves
\* .gitignore unchanged, and a save that succeeded while the option is
\* enabled in a git repository leaves .gitignore holding the line
\* .vscode/claudesync.json.
SaveEnds == cfgOps.save.pc = "written" /\ cfgOps'.save.pc = "idle"

C26_AddToGitignoreControls ==
  [][SaveEnds =>
       /\ ~stored.addToGitignore => gitignoreFile' = gitignoreFile
       /\ (stored.addToGitignore /\ gitRepo /\ cfgOps'.saved = "ok")
            => hasClaudeSyncIgnore(gitignoreFile')]_vars

\* The half of C26 about the enabled option alone.
C26_EnabledAddsLine ==
  [][(SaveEnds /\ stored.addToGitignore /\ gitRepo /\ cfgOps'.saved = "ok")
       => hasClaudeSyncIgnore(gitignoreFile')]_vars

\* The calls of a returned pass that threw.
Threw(pr) == {k \in 1..Len(pr.log) : pr.log[k].outcome # "ok"}

PassReturnsCaught ==
  \A p \in Procs :
    pass[p].pc = "ret" =>
      LET pr == pass[p]
      IN /\ \A k \in Threw(pr) :
              pr.log[k].op # "cleanup"
                => /\ k = Len(pr.log)
                   /\ ~pr.result.success
                   /\ pr.result.message = "Failed to sync files"
                   /\ pr.result.error = pr.log[k].outcome
         /\ pr.result.error # "none"
              => /\ Len(pr.log) \in Threw(pr)
                 /\ pr.log[Len(pr.log)].op # "cleanup"
                 /\ ~pr.result.success

CaughtIsRetried ==
  \A p \in Procs :
    (sup[p].pc = "wait" /\ pass[p].pc = "ret" /\ sup'[p].pc # "wait"
       /\ pass[p].result.error # "none")
      => /\ sup'[p].attempt = sup[p].attempt + 1
         /\ sup'[p].lastResult = pass[p].result
         /\ ~sup'[p].success
         /\ sup'[p].pc = IF sup'[p].attempt >= maxRetries THEN "finish"
                                                          ELSE "sleep"

DocsNamed(x) == {k \in 1..Len(remote) : remote[k].file_name = x}

\* The supervisor of p has reported success for a run whose last pass was
\* not cancelled.
ReportedSuccess(p) ==
  /\ sup[p].pc = "idle" /\ sup[p].success
  /\ Prepared(pass[p]) /\ ~pass[p].cancelled

\* C28: retries converge after partial application: when the supervisor
\* reports success, after attempts that failed anywhere (after the delete
\* of an update, after a create the store applied), every eligible file
\* has exactly one remote document with its name and that document holds
\* the local content.
C28_RetriesConverge ==
  \A p \in Procs :
    ReportedSuccess(p) =>
      \A x \in EligiblePaths(pass[p]) :
        /\ Cardinality(DocsNamed(x)) = 1
        /\ RemoteHolds(x, TextDecode(localFs[x]))

\* The half of C28 about the number of documents.
C28_OneDocumentPerFile ==
  \A p \in Procs :
    ReportedSuccess(p) =>
      \A x \in EligiblePaths(pass[p]) : Cardinality(DocsNamed(x)) = 1

\* The run of p ended in terminal failure: every attempt failed.
TerminalFailure(p) ==
  sup[p].pc = "idle" /\ ~sup[p].success /\ sup[p].attempt >= maxRetries

\* C29: no remote loss on failure: after a run that ended in terminal
\* failure, every file_name that had a remote document before the run
\* (namesBefore, history) and is the path of an eligible local file still
\* has a remote document.
C29_NoRemoteLoss ==
  \A p \in Procs :
    TerminalFailure(p) =>
      \A x \in sup[p].namesBefore :
        (x \in Range(files) /\ EligibleIn([startConfig |-> smConfig], x))
          => DocsNamed(x) # {}

\* The eligible local files the pass of pr was not called with.
EligibleOutside(pr) ==
  {x \in DOMAIN localFs : x \notin Range(files) /\ EligibleIn(pr, x)}

\* C30: remote mirrors local under partial passes: a pass called with a
\* part of the workspace (one file), cleanupRemoteFiles enabled, deletes no
\* remote document named as an eligible local file outside its candidate
\* list.
C30_PartialPassKeepsOthers ==
  \A p \in Procs :
    Prepared(pass[p]) =>
      \A k \in CallsOf(pass[p], {"cleanup"}) :
        pass[p].log[k].name \in EligibleOutside(pass[p])
          => pass[p].log[k].outcome # "ok"

\* Every change so far came within one debounce window, every handler
\* and timer has run, and the run the timer started reported success.
BurstSynced ==
  /\ auto.burst /\ auto.handlers = {} /\ auto.pending = {}
  /\ auto.calls # <<>>
  /\ ReportedSuccess(2)

\* C31: auto-sync covers every change: when several eligible files
\* changed within one debounce window, then after the timer fired and
\* the pass it started succeeded, the remote content of every changed
\* file is its local content.
C31_AutoSyncCoversChanges ==
  BurstSynced =>
    \A x \in auto.changed :
      EligibleIn(pass[2], x) => RemoteHolds(x, TextDecode(localFs[x]))

\* The half of C31 about the file the timer was last set for.
C31_LastChangeSynced ==
  BurstSynced =>
    RemoteHolds(auto.calls[Len(auto.calls)],
                TextDecode(localFs[auto.calls[Len(auto.calls)]]))

\* The sync engine excludes the path through a configured exclude pattern.
ExcludedByPattern(relativePath) ==
  \E pattern \in stored.excludePatterns : isMatch(pattern, relativePath, TRUE)

\* C32: the auto-sync watcher ignores excluded paths: no timer is pending
\* for, and no timer callback has called syncFiles with, a file that the
\* sync engine excludes through a configured exclude pattern.
C32_WatcherIgnoresExcluded ==
  /\ \A t \in auto.pending : ~ExcludedByPattern(t.uri)
  /\ \A k \in 1..Len(auto.calls) : ~ExcludedByPattern(auto.calls[k])

\* The part of C32 about a pattern that is the path itself.
C32_ExactPatternIgnored ==
  \A t \in auto.pending : t.uri \notin stored.excludePatterns

RECURSIVE GlobMeaning(_)
\* The glob as C33 reads it: '**' any sequence of characters, '*' any
\* sequence without '/', '?' one character other than '/', any other
\* character itself.
GlobMeaning(pattern) ==
  IF pattern = <<>> THEN <<>>
  ELSE IF Len(pattern) >= 2 /\ pattern[1] = "*" /\ pattern[2] = "*"
  THEN <<[atom |-> [kind |-> "any", ch |-> "."], star |-> TRUE]>>
       \o GlobMeaning(SubSeq(pattern, 3, Len(pattern)))
  ELSE <<IF pattern[1] = "*"
         THEN [atom |-> [kind |-> "nonslash", ch |-> "/"], star |-> TRUE]
         ELSE IF pattern[1] = "?"
         THEN [atom |-> [kind |-> "nonslash", ch |-> "/"], star |-> FALSE]
         ELSE [atom |-> [kind |-> "char", ch |-> pattern[1]], star |-> FALSE]>>
       \o GlobMeaning(Tail(pattern))

\* A pattern containing '/' against the full relative path, a trailing
\* '/**' or the directory flag allowing any suffix beneath it.
FullPathMatch(pattern, filePath, isDirectory) ==
  IF isDirectory \/ endsWith(pattern, <<"/", "*", "*">>)
  THEN TestBeneath(GlobMeaning(pattern), filePath)
  ELSE TestWhole(GlobMeaning(pattern), filePath)

\* C33: glob matching in GitignoreManager.isMatch: for a pattern that
\* contains '/', isMatch answers whether the full relative path matches
\* the pattern with '**' as any sequence of characters including '/', '*'
\* as any sequence without '/' and '?' as one character other than '/'
\* (any suffix beneath it allowed by a trailing '/**' or the directory
\* flag); so '**/*.pyc' matches a .pyc file at any depth and
\* 'node_modules/**' every path beneath node_modules.
C33_GlobMatching ==
  (matchAnswer.asked /\ includes(matchAnswer.pattern, "/"))
    => matchAnswer.result
         = FullPathMatch(matchAnswer.pattern, matchAnswer.filePath,
                         matchAnswer.isDirectory)

\* The part of C33 about 'node_modules/**'.
C33_BeneathNodeModules ==
  (matchAnswer.asked
     /\ matchAnswer.pattern = <<"n", "o", "d", "e", "_", "m", "o", "d", "u",
                                "l", "e", "s", "/", "*", "*">>)
    => matchAnswer.result
         = (/\ Len(matchAnswer.filePath) > 13
            /\ SubSeq(matchAnswer.filePath, 1, 13)
                 = <<"n", "o", "d", "e", "_", "m", "o", "d", "u", "l", "e", "s", "/">>)

\* The part of C33 about patterns without '**'.
C33_SingleStarAndQuestion ==
  (matchAnswer.asked /\ includes(matchAnswer.pattern, "/")
     /\ ~\E i \in 1..(Len(matchAnswer.pattern) - 1) :
           matchAnswer.pattern[i] = "*" /\ matchAnswer.pattern[i + 1] = "*")
    => matchAnswer.result
         = FullPathMatch(matchAnswer.pattern, matchAnswer.filePath,
                         matchAnswer.isDirectory)

\* What showErrorMessage and showInformationMessage have shown in a run.
ErrorsShown(p) ==
  Cardinality({k \in 1..Len(sup[p].ui) :
                 sup[p].ui[k] \in {TerminalError, InitializePrompt}})

InfosShown(p) ==
  Cardinality({k \in 1..Len(sup[p].ui) :
                 sup[p].ui[k] \in {"info: all files were up to date",
                                   "info: Successfully synced"}})

\* The retry loop of p has run and its report was made.
RunReported(p) == sup[p].pc = "idle" /\ sup[p].invocations > 0

\* C34: one message per terminal failure: a supervisor run that ended
\* without success has shown exactly one error message and no information
\* message, and a run that ended with success exactly one information
\* message and no error message.
C34_OneMessagePerRun ==
  \A p \in Procs :
    RunReported(p) =>
      IF sup[p].success
      THEN InfosShown(p) = 1 /\ ErrorsShown(p) = 0
      ELSE ErrorsShown(p) = 1 /\ InfosShown(p) = 0

\* The parts of C34 about success and about the failure of every attempt.
C34_OneMessageOtherwise ==
  \A p \in Procs :
    RunReported(p) =>
      IF sup[p].success
      THEN InfosShown(p) = 1 /\ ErrorsShown(p) = 0
      ELSE sup[p].attempt >= maxRetries
             => ErrorsShown(p) = 1 /\ InfosShown(p) = 0

\* C35: in the earlier supervisor revision the retry loop makes at most
\* maxRetries invocations of syncManager.syncFiles, with a delay between
\* consecutive attempts, and a run in which all of them failed has
\* reported 'Failed to sync files after maximum retries'.
C35_EarlierLoopBounded ==
  \A p \in Procs :
    /\ sup[p].invocations <= maxRetries
    /\ sup[p].invocations <= sup[p].sleeps + 1
    /\ (sup[p].pc = "idle" /\ ~sup[p].success
          /\ sup[p].invocations >= maxRetries)
         => sup[p].ui # <<>> /\ sup[p].ui[Len(sup[p].ui)] = MaximumRetriesError

\* The part of C35 about the first maxRetries invocations.
C35_DelayUpToMaxRetries ==
  \A p \in Procs :
    sup[p].invocations <= maxRetries
      => sup[p].invocations <= sup[p].sleeps + 1

\* C36: at most one auto-sync file watcher is live: once every
\* setupFileWatcher call has finished, every watcher that was created and
\* is not the one fileWatcher refers to has been disposed, and with
\* auto-sync disabled no watcher is live.
C36_OneLiveWatcher ==
  auto.setups = {} =>
    /\ auto.watchers \subseteq {auto.fileWatcher}
    /\ ~stored.autoSync => auto.watchers = {}

\* A pass started by auto-sync: the timer callback's syncFiles([uri])
\* reached its retry loop.
AutoSyncPassStarts ==
  /\ Len(auto'.calls) > Len(auto.calls)
  /\ sup'[2].pc = "loop"

\* C37: once the configuration has been saved with autoSync = false, no
\* pass triggered by auto-sync starts any more, a debounce timer that was
\* pending when auto-sync was disabled included.
C37_DisabledStopsAutoSync ==
  [][~stored.autoSync => ~AutoSyncPassStarts]_vars

\* The part of C37 about change events: while the saved configuration has
\* autoSync = false and the cache was dropped, no handler arms a timer.
C37_NoTimerArmedWhenDisabled ==
  [][(~stored.autoSync /\ ~cachedConfig.loaded)
       => auto'.pending \subseteq auto.pending]_vars

\* SyncManager.syncFiles returned a successful result with its counts.
ReturnedCounts(pr) == pr.pc = "ret" /\ pr.result.success /\ pr.result.hasData

\* The files the apply loop went through that are name-matched in the
\* listing with an equal fingerprint.
UnchangedReached(pr) ==
  {k \in 1..(pr.i - 1) :
     \E m \in 1..Len(pr.existingFiles) :
       /\ pr.existingFiles[m].file_name = pr.fileContents[k].path
       /\ \A n \in 1..(m - 1) :
            pr.existingFiles[n].file_name # pr.fileContents[k].path
       /\ computeSHA256Hash(pr.existingFiles[m].content)
            = computeSHA256Hash(pr.fileContents[k].content)}

\* The listed documents named as no eligible candidate of the pass.
ListedWithoutCounterpart(pr) ==
  {m \in 1..Len(pr.existingFiles) :
     pr.existingFiles[m].file_name \notin EligiblePaths(pr)}

OkCalls(pr, op) ==
  Cardinality({k \in 1..Len(pr.log) :
                 pr.log[k].op = op /\ pr.log[k].outcome = "ok"})

\* What every successful result's counts are, whether cancelled or not.
CountsOf(pr) ==
  /\ pr.result.syncedFiles = OkCalls(pr, "upload")
  /\ pr.result.skippedFiles = Cardinality(UnchangedReached(pr))
  /\ pr.result.deletedFiles = OkCalls(pr, "cleanup")
  /\ pr.result.totalFiles = Len(pr.fileContents)
  /\ pr.result.syncedFiles + pr.result.skippedFiles <= pr.result.totalFiles
  /\ pr.result.deletedFiles <= Cardinality(ListedWithoutCounterpart(pr))

\* C38 as stated: the counts of every successful result are consistent,
\* and syncedFiles + skippedFiles = totalFiles exactly when the pass was
\* not cancelled.
C38_OutcomeCounts ==
  \A p \in Procs :
    ReturnedCounts(pass[p]) =>
      /\ CountsOf(pass[p])
      /\ (pass[p].result.syncedFiles + pass[p].result.skippedFiles
            = pass[p].result.totalFiles) <=> ~pass[p].cancelled

\* C38, amended: the counts of every successful result are consistent:
\* syncedFiles is the number of successful creates, skippedFiles the
\* number of name-matched files with equal fingerprints the pass went
\* through, deletedFiles the number of successful cleanup deletions;
\* syncedFiles + skippedFiles <= totalFiles with equality whenever the
\* pass was not cancelled, and deletedFiles is at most the number of
\* listed documents without an eligible local counterpart.
C38_OutcomeCountsConsistent ==
  \A p \in Procs :
    ReturnedCounts(pass[p]) =>
      /\ CountsOf(pass[p])
      /\ ~pass[p].cancelled =>
           pass[p].result.syncedFiles + pass[p].result.skippedFiles
             = pass[p].result.totalFiles

\* A pass that was cancelled while its last file was being uploaded
\* returned with every file counted.
C38_Witness ==
  \E p \in Procs :
    /\ ReturnedCounts(pass[p])
    /\ pass[p].cancelled
    /\ pass[p].result.syncedFiles > 0
    /\ pass[p].result.skippedFiles > 0
    /\ pass[p].result.syncedFiles + pass[p].result.skippedFiles
         = pass[p].result.totalFiles

====
